---- MODULE Spec2Model ----
(***************************************************************************)
(* VCF validation engine of realm_task_5_1_postmarket_uc2:                 *)
(*   src/statistical_analysis.py  vcf_header_consistency, validate_type,   *)
(*                                data_type_consistency                    *)
(*   src/expert_knowledge.py      validate_vcf_positions,                  *)
(*                                validate_nucleotides, their report_*     *)
(*                                wrappers, expert_knowledge_evaluation    *)
(*                                                                         *)
(* A Python str is a sequence of one-character strings, a file is the      *)
(* sequence of its lines without the line terminator (str.strip() removes  *)
(* the terminator together with every other leading or trailing blank).    *)
(* A formatted message (an f-string) is the record of the values it        *)
(* formats.                                                                *)
(***************************************************************************)
EXTENDS Integers, Sequences, FiniteSets, TLC

VARIABLES
    fn,         \* the validator that is running on vcf_file
    vcf_file,   \* the lines of the file the validator reads
    lineno,     \* lines the file iterator has handed out so far
    locals,     \* the running validator's local variables
    ret,        \* its return value, NoValue until it returns
    pc,         \* control point
    vcf_files,  \* expert_knowledge_evaluation: the files glob.glob matched
    results,    \* expert_knowledge_evaluation: its results dict
    idx,        \* expert_knowledge_evaluation: files of the for loop done
    calls,      \* validator calls made by expert_knowledge_evaluation
    prev,       \* what the earlier call of fn on the same input returned
    runs        \* earlier calls of fn on this input

vars ==
    <<fn, vcf_file, lineno, locals, ret, pc, vcf_files, results, idx, calls, prev, runs>>

NoValue == [none |-> TRUE]

(***************************************************************************)
(* Bounds                                                                  *)
(***************************************************************************)
\* lines of a file drawn from a validator's line pool
MaxLines == 3
\* files of a batch
MaxFiles == 3
\* characters of a value given to validate_type
MaxValueLen == 3
\* characters of a genotype value
MaxGenotypeLen == 5
\* segments appended to the repository URL
MaxSegments == 3

(***************************************************************************)
(* Python str operations                                                   *)
(***************************************************************************)
TAB == "\t"

\* the blanks str.strip() removes that occur in the modelled files
Whitespace == {" ", "\t"}

Digits == {"0", "1", "2", "3", "4", "5", "6", "7", "8", "9"}

startswith(s, prefix) ==
    /\ Len(prefix) <= Len(s)
    /\ SubSeq(s, 1, Len(prefix)) = prefix

\* sub in s
contains(s, sub) ==
    \E i \in 1..(Len(s) - Len(sub) + 1) : SubSeq(s, i, i + Len(sub) - 1) = sub

RECURSIVE lstrip(_)
lstrip(s) ==
    IF s # <<>> /\ Head(s) \in Whitespace THEN lstrip(Tail(s)) ELSE s

RECURSIVE rstrip(_)
rstrip(s) ==
    IF s # <<>> /\ s[Len(s)] \in Whitespace
    THEN rstrip(SubSeq(s, 1, Len(s) - 1))
    ELSE s

strip(s) == rstrip(lstrip(s))

\* s.split(sep) for a one-character sep: always at least one field
RECURSIVE split(_, _)
split(s, sep) ==
    IF \A i \in 1..Len(s) : s[i] # sep
    THEN <<s>>
    ELSE LET i == CHOOSE j \in 1..Len(s) :
                      s[j] = sep /\ \A k \in 1..(j - 1) : s[k] # sep
         IN  <<SubSeq(s, 1, i - 1)>> \o split(SubSeq(s, i + 1, Len(s)), sep)

\* a split in two at the last sep
split_at_last(s, sep) ==
    IF \A i \in 1..Len(s) : s[i] # sep
    THEN <<s>>
    ELSE LET i == CHOOSE j \in 1..Len(s) :
                      s[j] = sep /\ \A k \in (j + 1)..Len(s) : s[k] # sep
         IN  <<SubSeq(s, 1, i - 1), SubSeq(s, i + 1, Len(s))>>

\* s.split(sep, 1): at the first sep only
split_once(s, sep) ==
    IF \A i \in 1..Len(s) : s[i] # sep
    THEN <<s>>
    ELSE LET i == CHOOSE j \in 1..Len(s) :
                      s[j] = sep /\ \A k \in 1..(j - 1) : s[k] # sep
         IN  <<SubSeq(s, 1, i - 1), SubSeq(s, i + 1, Len(s))>>

\* s[n:]
drop(s, n) == SubSeq(s, n + 1, Len(s))

\* s[a:-1]
slice_to_last(s, a) == SubSeq(s, a + 1, Len(s) - 1)

DigitValue(c) ==
    CASE c = "0" -> 0 [] c = "1" -> 1 [] c = "2" -> 2 [] c = "3" -> 3
      [] c = "4" -> 4 [] c = "5" -> 5 [] c = "6" -> 6 [] c = "7" -> 7
      [] c = "8" -> 8 [] c = "9" -> 9

\* the value of decimal digits; the underscores between them do not count
RECURSIVE DecimalValue(_)
DecimalValue(s) ==
    IF s = <<>> THEN 0
    ELSE IF s[Len(s)] = "_" THEN DecimalValue(SubSeq(s, 1, Len(s) - 1))
    ELSE 10 * DecimalValue(SubSeq(s, 1, Len(s) - 1)) + DigitValue(s[Len(s)])

\* decimal digits as int() and float() read them: at least one, with single
\* underscores allowed between two digits
digits_ok(d) ==
    /\ d # <<>>
    /\ \A i \in 1..Len(d) : d[i] \in Digits \cup {"_"}
    /\ d[1] # "_" /\ d[Len(d)] # "_"
    /\ \A i \in 1..(Len(d) - 1) : ~(d[i] = "_" /\ d[i + 1] = "_")

\* int(s) returns a value: blanks around, an optional sign, decimal digits
int_ok(s) ==
    LET t == strip(s)
        d == IF t # <<>> /\ Head(t) \in {"+", "-"} THEN Tail(t) ELSE t
    IN  digits_ok(d)

\* int(s), where int_ok(s); int(s) raises ValueError otherwise
int(s) ==
    LET t == strip(s)
        d == IF Head(t) \in {"+", "-"} THEN Tail(t) ELSE t
    IN  IF Head(t) = "-" THEN 0 - DecimalValue(d) ELSE DecimalValue(d)

LowerCase ==
    <<"a","b","c","d","e","f","g","h","i","j","k","l","m","n","o","p","q","r","s","t","u","v","w","x","y","z">>

UpperCase ==
    <<"A","B","C","D","E","F","G","H","I","J","K","L","M","N","O","P","Q","R","S","T","U","V","W","X","Y","Z">>

\* c.upper() of one ASCII character
upper_char(c) ==
    IF \E i \in 1..26 : LowerCase[i] = c
    THEN UpperCase[CHOOSE i \in 1..26 : LowerCase[i] = c]
    ELSE c

upper(s) == [i \in 1..Len(s) |-> upper_char(s[i])]

(***************************************************************************)
(* String literals of the source                                           *)
(***************************************************************************)
\* ##fileformat=
P_fileformat ==
    <<"#","#","f","i","l","e","f","o","r","m","a","t","=">>
\* ##contig=
P_contig ==
    <<"#","#","c","o","n","t","i","g","=">>
\* ##contig=<ID=
P_contig_id ==
    <<"#","#","c","o","n","t","i","g","=","<","I","D","=">>
\* #CHROM
P_chrom ==
    <<"#","C","H","R","O","M">>
\* #
P_hash ==
    <<"#">>
\* ##
P_hash2 ==
    <<"#","#">>
\* assembly=GRCh38
P_assembly ==
    <<"a","s","s","e","m","b","l","y","=","G","R","C","h","3","8">>
\* chr
P_chr ==
    <<"c","h","r">>
\* ID=
P_id ==
    <<"I","D","=">>
\* length=
P_length ==
    <<"l","e","n","g","t","h","=">>

(***************************************************************************)
(* Lines of input files                                                    *)
(***************************************************************************)
\* ##fileformat=VCFv4.2
L_fileformat ==
    <<"#","#","f","i","l","e","f","o","r","m","a","t","=","V","C","F","v","4",".","2">>
\*  ##fileformat=VCFv4.2
L_fileformat_indented ==
    <<" ","#","#","f","i","l","e","f","o","r","m","a","t","=","V","C","F","v","4",".","2">>
\* ##contig=<ID=chr1,length=100,assembly=GRCh38>
L_contig ==
    <<"#","#","c","o","n","t","i","g","=","<","I","D","=","c","h","r","1",",","l","e","n","g","t","h","=","1","0","0",",","a","s","s","e","m","b","l","y","=","G","R","C","h","3","8",">">>
\* ##contig=<ID=chr1,length=100>
L_contig_noasm ==
    <<"#","#","c","o","n","t","i","g","=","<","I","D","=","c","h","r","1",",","l","e","n","g","t","h","=","1","0","0",">">>
\* #CHROM<TAB>POS<TAB>ID
L_header3 ==
    <<"#","C","H","R","O","M","\t","P","O","S","\t","I","D">>
\* chr1<TAB>150<TAB>.
L_data3 ==
    <<"c","h","r","1","\t","1","5","0","\t",".">>
\* chr1<TAB>150<TAB>
L_data3_trailing ==
    <<"c","h","r","1","\t","1","5","0","\t">>
\* 1<TAB>150
L_data2_nochr ==
    <<"1","\t","1","5","0">>
\* an empty line
L_blank ==
    <<>>
\* ##contig=<ID=chr2,length=0>
L_contig_zero ==
    <<"#","#","c","o","n","t","i","g","=","<","I","D","=","c","h","r","2",",","l","e","n","g","t","h","=","0",">">>
\* ##contig=<ID=chr3,length=x>
L_contig_badlen ==
    <<"#","#","c","o","n","t","i","g","=","<","I","D","=","c","h","r","3",",","l","e","n","g","t","h","=","x",">">>
\* #CHROM<TAB>POS<TAB>ID<TAB>REF<TAB>ALT
L_header5 ==
    <<"#","C","H","R","O","M","\t","P","O","S","\t","I","D","\t","R","E","F","\t","A","L","T">>
\* #CHROM<TAB>POS<TAB>ID<TAB>REF<TAB>ALT<TAB>QUAL<TAB>FILTER<TAB>INFO<TAB>FORMAT<TAB>S1
L_header10 ==
    <<"#","C","H","R","O","M","\t","P","O","S","\t","I","D","\t","R","E","F","\t","A","L","T","\t","Q","U","A","L","\t","F","I","L","T","E","R","\t","I","N","F","O","\t","F","O","R","M","A","T","\t","S","1">>
\* chr1<TAB>150<TAB>.<TAB>A<TAB>T<TAB>.<TAB>.<TAB>.<TAB>GT<TAB>0/1
L_scenario ==
    <<"c","h","r","1","\t","1","5","0","\t",".","\t","A","\t","T","\t",".","\t",".","\t",".","\t","G","T","\t","0","/","1">>
\* chr1<TAB>150<TAB>.<TAB>A<TAB>X<TAB>.<TAB>.<TAB>.<TAB>GT<TAB>0/1
L_scenario_X ==
    <<"c","h","r","1","\t","1","5","0","\t",".","\t","A","\t","X","\t",".","\t",".","\t",".","\t","G","T","\t","0","/","1">>
\* chr1<TAB>150<TAB>.<TAB>A<TAB>T
L_pos_over ==
    <<"c","h","r","1","\t","1","5","0","\t",".","\t","A","\t","T">>
\* chr1<TAB>100<TAB>.<TAB>A<TAB>T
L_pos_equal ==
    <<"c","h","r","1","\t","1","0","0","\t",".","\t","A","\t","T">>
\* chr2<TAB>5<TAB>.<TAB>A<TAB>T
L_pos_chr2 ==
    <<"c","h","r","2","\t","5","\t",".","\t","A","\t","T">>
\* chr1<TAB>150<TAB>.<TAB>A
L_pos_short ==
    <<"c","h","r","1","\t","1","5","0","\t",".","\t","A">>
\* chr1<TAB>abc<TAB>.<TAB>A<TAB>T
L_pos_nonint ==
    <<"c","h","r","1","\t","a","b","c","\t",".","\t","A","\t","T">>
\* chr1<TAB>150<TAB>.<TAB>ac<TAB>GTN,n
L_nuc_ok ==
    <<"c","h","r","1","\t","1","5","0","\t",".","\t","a","c","\t","G","T","N",",","n">>
\* chr1<TAB>150<TAB>.<TAB>A<TAB>X
L_nuc_alt ==
    <<"c","h","r","1","\t","1","5","0","\t",".","\t","A","\t","X">>
\* chr1<TAB>150<TAB>.<TAB>X<TAB>T,X
L_nuc_both ==
    <<"c","h","r","1","\t","1","5","0","\t",".","\t","X","\t","T",",","X">>
\* chr1<TAB>150<TAB>.<TAB>A<TAB>X,X
L_nuc_twice ==
    <<"c","h","r","1","\t","1","5","0","\t",".","\t","A","\t","X",",","X">>
\* chr1<TAB>150<TAB>.<TAB>X
L_nuc_short ==
    <<"c","h","r","1","\t","1","5","0","\t",".","\t","X">>
\* #x
L_comment ==
    <<"#","x">>
\* ##INFO=<ID=DP,Number=1,Type=Integer,Description="d">
L_info_dp ==
    <<"#","#","I","N","F","O","=","<","I","D","=","D","P",",","N","u","m","b","e","r","=","1",",","T","y","p","e","=","I","n","t","e","g","e","r",",","D","e","s","c","r","i","p","t","i","o","n","=","\"","d","\"",">">>
\* ##INFO=<ID=DB,Number=0,Type=Flag,Description="d">
L_info_db ==
    <<"#","#","I","N","F","O","=","<","I","D","=","D","B",",","N","u","m","b","e","r","=","0",",","T","y","p","e","=","F","l","a","g",",","D","e","s","c","r","i","p","t","i","o","n","=","\"","d","\"",">">>
\* ##FORMAT=<ID=GT,Number=1,Type=String,Description="d">
L_format_gt ==
    <<"#","#","F","O","R","M","A","T","=","<","I","D","=","G","T",",","N","u","m","b","e","r","=","1",",","T","y","p","e","=","S","t","r","i","n","g",",","D","e","s","c","r","i","p","t","i","o","n","=","\"","d","\"",">">>
\* ##FORMAT=<ID=DP,Number=1,Type=Integer,Description="d">
L_format_dp ==
    <<"#","#","F","O","R","M","A","T","=","<","I","D","=","D","P",",","N","u","m","b","e","r","=","1",",","T","y","p","e","=","I","n","t","e","g","e","r",",","D","e","s","c","r","i","p","t","i","o","n","=","\"","d","\"",">">>
\* chr1<TAB>150<TAB>.<TAB>A<TAB>T<TAB>.<TAB>.<TAB>DP=5;DB<TAB>GT:DP<TAB>0|1:7
L_typ_ok ==
    <<"c","h","r","1","\t","1","5","0","\t",".","\t","A","\t","T","\t",".","\t",".","\t","D","P","=","5",";","D","B","\t","G","T",":","D","P","\t","0","|","1",":","7">>
\* chr1<TAB>150<TAB>.<TAB>A<TAB>T<TAB>.<TAB>.<TAB>DP=x;AF=1<TAB>GT:XX<TAB>0/x:y
L_typ_bad ==
    <<"c","h","r","1","\t","1","5","0","\t",".","\t","A","\t","T","\t",".","\t",".","\t","D","P","=","x",";","A","F","=","1","\t","G","T",":","X","X","\t","0","/","x",":","y">>
\* chr1<TAB>150<TAB>.<TAB>A<TAB>T<TAB>.<TAB>.<TAB>DP<TAB>GT:DP<TAB>0/1:y
L_typ_badfmt ==
    <<"c","h","r","1","\t","1","5","0","\t",".","\t","A","\t","T","\t",".","\t",".","\t","D","P","\t","G","T",":","D","P","\t","0","/","1",":","y">>
\* chr1<TAB>150<TAB>.<TAB>
L_data4_trailing ==
    <<"c","h","r","1","\t","1","5","0","\t",".","\t">>

L_contig_reversed ==
    <<"#","#","c","o","n","t","i","g","=","<","l","e","n","g","t","h","=","7",",","I","D","=","c","h","r","4",">">>

L_info_type_last ==
    <<"#","#","I","N","F","O","=","<","I","D","=","D","P",",","T","y","p","e","=","I","n","t","e","g","e","r",">">>

L_format_type_first ==
    <<"#","#","F","O","R","M","A","T","=","<","T","y","p","e","=","I","n","t","e","g","e","r",",","I","D","=","D","P",">">>

L_typ_multi ==
    <<"c","h","r","1","\t","1","5","0","\t",".","\t","A","\t","T","\t",".","\t",".","\t","D","P","=","1",",","x",",",".",",","y",";","Z","Z","=","a","=","b",";","D","P","=","3","=","4","\t","G","T","\t","0","/","1">>

\* chr1<TAB>150<TAB>.<TAB>A<TAB>T<TAB>.<TAB>.<TAB>.<TAB>GT:XX:DP<TAB>x/y:z
L_typ_counts ==
    <<"c","h","r","1","\t","1","5","0","\t",".","\t","A","\t","T","\t",".","\t",".","\t",".","\t","G","T",":","X","X",":","D","P","\t","x","/","y",":","z">>

\* chr1<TAB>150<TAB>.<TAB>A<TAB>T<TAB>.<TAB>.<TAB>DB=;DB=.<TAB>GT<TAB>0/1
L_flag_blank ==
    <<"c","h","r","1","\t","1","5","0","\t",".","\t","A","\t","T","\t",".","\t",".","\t","D","B","=",";","D","B","=",".","\t","G","T","\t","0","/","1">>

\* chr1<TAB>150<TAB>.<TAB>A<TAB>T<TAB>.<TAB>.<TAB>DB=1<TAB>GT<TAB>0/1
L_flag_value ==
    <<"c","h","r","1","\t","1","5","0","\t",".","\t","A","\t","T","\t",".","\t",".","\t","D","B","=","1","\t","G","T","\t","0","/","1">>

\* #CHROM<TAB>POS<TAB>ID<TAB>REF<TAB>ALT<TAB>QUAL<TAB>FILTER<TAB>INFO<TAB>FORMAT<TAB>S1<TAB>S2
L_header11 ==
    <<"#","C","H","R","O","M","\t","P","O","S","\t","I","D","\t","R","E","F","\t","A","L","T","\t","Q","U","A","L","\t","F","I","L","T","E","R","\t","I","N","F","O","\t","F","O","R","M","A","T","\t","S","1","\t","S","2">>

\* chr1<TAB>150<TAB>.<TAB>A<TAB>T<TAB>.<TAB>.<TAB>.<TAB>GT<TAB>0/1<TAB>x
L_two_samples ==
    <<"c","h","r","1","\t","1","5","0","\t",".","\t","A","\t","T","\t",".","\t",".","\t",".","\t","G","T","\t","0","/","1","\t","x">>

\* chr1<TAB>150<TAB>.<TAB>A<TAB>T<TAB>.<TAB>.<TAB>.<TAB>GT<TAB><TAB>0/1
L_two_empty_first ==
    <<"c","h","r","1","\t","1","5","0","\t",".","\t","A","\t","T","\t",".","\t",".","\t",".","\t","G","T","\t","\t","0","/","1">>

(***************************************************************************)
(* statistical_analysis.py: vcf_header_consistency                         *)
(***************************************************************************)
\* results["errors"][category].append(finding); results["is_valid"] = False,
\* left undone: the append without the flag
record_error_keeps_flag(res, category, finding) ==
    [res EXCEPT !.errors[category] = Append(@, finding)]

\* results["errors"][category].append(finding); results["is_valid"] = False
record_error(res, category, finding) ==
    [res EXCEPT !.errors[category] = Append(@, finding), !.is_valid = FALSE]

\* the locals of vcf_header_consistency before its loop
header_locals ==
    [results |->
        [is_valid |-> TRUE,
         errors |-> [missing_headers |-> <<>>,
                     field_count_mismatch |-> <<>>,
                     invalid_contig_assembly |-> <<>>,
                     invalid_chrom_format |-> <<>>]],
     has_fileformat |-> FALSE,
     has_chrom_header |-> FALSE,
     expected_field_count |-> 0,
     line_number |-> 0]

\* "assembly=GRCh38" not in line
contig_assembly_missing(line) == ~contains(line, P_assembly)

\* the branch of a line that does not start with "#": field count, CHROM format
header_data_line(s, line) ==
    LET fields == split(line, TAB)
        s1 == IF Len(fields) # s.expected_field_count
              THEN [s EXCEPT !.results = record_error(@, "field_count_mismatch",
                       [line |-> s.line_number,
                        expected |-> s.expected_field_count,
                        got |-> Len(fields)])]
              ELSE s
    IN  IF ~startswith(fields[1], P_chr)
        THEN [s1 EXCEPT !.results = record_error(@, "invalid_chrom_format",
                 [line |-> s.line_number, chrom |-> fields[1]])]
        ELSE s1

\* one iteration of the loop with the line number counted after the blank test
vcf_header_consistency_line_skips_blank(s, raw) ==
    LET line == strip(raw)
        s1 == [s EXCEPT !.line_number = @ + 1]
    IN  IF line = <<>> THEN s
        ELSE IF startswith(line, P_fileformat)
        THEN [s1 EXCEPT !.has_fileformat = TRUE]
        ELSE IF startswith(line, P_contig)
        THEN IF contig_assembly_missing(line)
             THEN [s1 EXCEPT !.results =
                      record_error(@, "invalid_contig_assembly", s1.line_number)]
             ELSE s1
        ELSE IF startswith(line, P_chrom)
        THEN [s1 EXCEPT !.has_chrom_header = TRUE,
                        !.expected_field_count = Len(split(line, TAB))]
        ELSE IF ~startswith(line, P_hash)
        THEN header_data_line(s1, line)
        ELSE s1

\* one iteration of "for line in vcf_file" on the raw line
vcf_header_consistency_line(s, raw) ==
    LET line == strip(raw)
        s1 == [s EXCEPT !.line_number = @ + 1]
    IN  IF line = <<>> THEN s1
        ELSE IF startswith(line, P_fileformat)
        THEN [s1 EXCEPT !.has_fileformat = TRUE]
        ELSE IF startswith(line, P_contig)
        THEN IF contig_assembly_missing(line)
             THEN [s1 EXCEPT !.results =
                      record_error(@, "invalid_contig_assembly", s1.line_number)]
             ELSE s1
        ELSE IF startswith(line, P_chrom)
        THEN [s1 EXCEPT !.has_chrom_header = TRUE,
                        !.expected_field_count = Len(split(line, TAB))]
        ELSE IF ~startswith(line, P_hash)
        THEN header_data_line(s1, line)
        ELSE s1

\* the two presence checks with the "#CHROM" one forgotten
header_missing_checks_fileformat_only(s) ==
    IF ~s.has_fileformat
    THEN record_error(s.results, "missing_headers", "##fileformat")
    ELSE s.results

\* the two presence checks after the loop; the value returned
header_missing_checks(s) ==
    LET r1 == IF ~s.has_fileformat
              THEN record_error(s.results, "missing_headers", "##fileformat")
              ELSE s.results
    IN  IF ~s.has_chrom_header
        THEN record_error(r1, "missing_headers", "#CHROM")
        ELSE r1

RECURSIVE header_loop(_, _)
header_loop(s, lines) ==
    IF lines = <<>> THEN s
    ELSE header_loop(vcf_header_consistency_line(s, Head(lines)), Tail(lines))

\* vcf_header_consistency(vcf_file_path) on the lines of the file
vcf_header_consistency(lines) ==
    header_missing_checks(header_loop(header_locals, lines))

(***************************************************************************)
(* expert_knowledge.py: validate_vcf_positions, report_invalid_positions   *)
(***************************************************************************)
\* an empty dict
EmptyDict == [k \in {} |-> NoValue]

\* d[k] = v
dict_set(d, k, v) == [x \in DOMAIN d \cup {k} |-> IF x = k THEN v ELSE d[x]]

\* chrom_id = None; length = None (a variable that is None holds is_none)
contig_none == [is_none |-> TRUE]

\* the body of "for part in parts" on chrom_id, length; int() may raise
contig_part(acc, part) ==
    IF acc.raised THEN acc
    ELSE IF startswith(part, P_id)
    THEN [acc EXCEPT !.chrom_id = [is_none |-> FALSE, value |-> drop(part, 3)]]
    ELSE IF startswith(part, P_length)
    THEN IF int_ok(drop(part, 7))
         THEN [acc EXCEPT !.length = [is_none |-> FALSE, value |-> int(drop(part, 7))]]
         ELSE [acc EXCEPT !.raised = TRUE]
    ELSE acc

RECURSIVE contig_parts(_, _)
contig_parts(acc, parts) ==
    IF parts = <<>> THEN acc
    ELSE contig_parts(contig_part(acc, Head(parts)), Tail(parts))

\* chrom_id, length of a "##contig=<ID=" line: line[10:-1].split(",")
contig_info(line) ==
    contig_parts([chrom_id |-> contig_none, length |-> contig_none, raised |-> FALSE],
                 split(slice_to_last(line, 10), ","))

\* "if chrom_id and length": neither None, nor "" nor 0
contig_entry(info) ==
    /\ ~info.chrom_id.is_none /\ info.chrom_id.value # <<>>
    /\ ~info.length.is_none /\ info.length.value # 0

\* the locals of validate_vcf_positions before its loops
positions_locals == [chrom_lengths |-> EmptyDict, invalid_positions |-> <<>>]

\* one iteration of the first loop; next is "header" (go on), "data" (break)
\* or "raised" (ValueError of int() leaves the function)
positions_header_line(s, raw) ==
    LET line == strip(raw)
    IN  IF startswith(line, P_contig_id)
        THEN LET info == contig_info(line)
             IN  IF info.raised THEN [locals |-> s, next |-> "raised"]
                 ELSE IF contig_entry(info)
                 THEN [locals |-> [s EXCEPT !.chrom_lengths =
                                      dict_set(@, info.chrom_id.value, info.length.value)],
                       next |-> "header"]
                 ELSE [locals |-> s, next |-> "header"]
        ELSE IF startswith(line, P_chrom)
        THEN [locals |-> s, next |-> "data"]
        ELSE [locals |-> s, next |-> "header"]

\* pos > chrom_lengths[chrom]
position_exceeds(pos, length) == pos > length

\* one iteration of the second loop
positions_data_line(s, raw) ==
    IF startswith(raw, P_hash) THEN s
    ELSE LET fields == split(strip(raw), TAB)
         IN  IF Len(fields) < 5 THEN s
             ELSE LET chrom == fields[1]
                  IN  IF ~int_ok(fields[2]) THEN s
                      ELSE IF /\ chrom \in DOMAIN s.chrom_lengths
                              /\ position_exceeds(int(fields[2]), s.chrom_lengths[chrom])
                      THEN [s EXCEPT !.invalid_positions =
                               Append(@, <<chrom, int(fields[2]), s.chrom_lengths[chrom]>>)]
                      ELSE s

\* validate_vcf_positions from the given control point on the remaining lines;
\* [locals, raised]
RECURSIVE positions_run(_, _, _)
positions_run(s, at, lines) ==
    IF lines = <<>> THEN [locals |-> s, raised |-> FALSE]
    ELSE IF at = "header"
    THEN LET step == positions_header_line(s, Head(lines))
         IN  IF step.next = "raised" THEN [locals |-> s, raised |-> TRUE]
             ELSE positions_run(step.locals, step.next, Tail(lines))
    ELSE positions_run(positions_data_line(s, Head(lines)), "data", Tail(lines))

\* the dict report_invalid_positions builds from the list
positions_report(invalid_positions) ==
    [is_valid |-> Len(invalid_positions) = 0,
     invalid_positions |->
        [i \in 1..Len(invalid_positions) |->
            [chromosome |-> invalid_positions[i][1],
             position |-> invalid_positions[i][2],
             max_length |-> invalid_positions[i][3]]]]

\* report_invalid_positions(vcf_file_path): [raised, value]
report_invalid_positions(lines) ==
    LET run == positions_run(positions_locals, "header", lines)
    IN  IF run.raised THEN [raised |-> TRUE, value |-> NoValue]
        ELSE [raised |-> FALSE,
              value |-> positions_report(run.locals.invalid_positions)]

(***************************************************************************)
(* expert_knowledge.py: validate_nucleotides, report_invalid_nucleotides   *)
(***************************************************************************)
valid_nucleotides == {"A", "C", "G", "T", "N"}

\* the test made on the sequence as written, without upper()
only_nucleotides_case_sensitive(seq) ==
    \A i \in 1..Len(seq) : seq[i] \in valid_nucleotides

\* all(nucleotide in valid_nucleotides for nucleotide in seq.upper())
only_nucleotides(seq) ==
    \A i \in 1..Len(seq) : upper(seq)[i] \in valid_nucleotides

RECURSIVE alt_findings(_, _, _)
\* the findings of "for alt in alt_field.split(',')", in order
alt_findings(chrom, pos, alts) ==
    IF alts = <<>> THEN <<>>
    ELSE (IF only_nucleotides(Head(alts)) THEN <<>>
          ELSE << <<chrom, pos, "ALT", Head(alts)>> >>)
         \o alt_findings(chrom, pos, Tail(alts))

\* the locals of validate_nucleotides before its loops
nucleotides_locals == [invalid_sequences |-> <<>>]

\* one iteration of the first loop: "data" on break, "header" otherwise
nucleotides_header_line(raw) ==
    IF startswith(raw, P_chrom) THEN "data" ELSE "header"

\* one iteration of the second loop
nucleotides_data_line(s, raw) ==
    IF startswith(raw, P_hash) THEN s
    ELSE LET fields == split(strip(raw), TAB)
         IN  IF Len(fields) < 5 THEN s
             ELSE LET chrom == fields[1]
                      pos == fields[2]
                      ref == fields[4]
                      alt_field == fields[5]
                      ref_finding ==
                          IF only_nucleotides(ref) THEN <<>>
                          ELSE << <<chrom, pos, "REF", ref>> >>
                  IN  [s EXCEPT !.invalid_sequences =
                          @ \o ref_finding
                            \o alt_findings(chrom, pos, split(alt_field, ","))]

RECURSIVE nucleotides_run(_, _, _)
nucleotides_run(s, at, lines) ==
    IF lines = <<>> THEN s
    ELSE IF at = "header"
    THEN nucleotides_run(s, nucleotides_header_line(Head(lines)), Tail(lines))
    ELSE nucleotides_run(nucleotides_data_line(s, Head(lines)), "data", Tail(lines))

\* the dict report_invalid_nucleotides builds from the list
nucleotides_report(invalid_sequences) ==
    [is_valid |-> Len(invalid_sequences) = 0,
     invalid_sequences |->
        [i \in 1..Len(invalid_sequences) |->
            [chromosome |-> invalid_sequences[i][1],
             position |-> invalid_sequences[i][2],
             field |-> invalid_sequences[i][3],
             value |-> invalid_sequences[i][4]]]]

\* report_invalid_nucleotides(vcf_file_path)
report_invalid_nucleotides(lines) ==
    nucleotides_report(
        nucleotides_run(nucleotides_locals, "header", lines).invalid_sequences)

(***************************************************************************)
(* statistical_analysis.py: validate_type                                  *)
(***************************************************************************)
\* Integer
T_Integer ==
    <<"I","n","t","e","g","e","r">>
\* Float
T_Float ==
    <<"F","l","o","a","t">>
\* Flag
T_Flag ==
    <<"F","l","a","g">>
\* Character
T_Character ==
    <<"C","h","a","r","a","c","t","e","r">>
\* String
T_String ==
    <<"S","t","r","i","n","g">>
\* ##INFO=<
P_info ==
    <<"#","#","I","N","F","O","=","<">>
\* ##FORMAT=<
P_format ==
    <<"#","#","F","O","R","M","A","T","=","<">>
\* Type=
P_type ==
    <<"T","y","p","e","=">>
\* INFO
K_INFO ==
    <<"I","N","F","O">>
\* FORMAT
K_FORMAT ==
    <<"F","O","R","M","A","T">>
\* GT
K_GT ==
    <<"G","T">>
\* .
S_dot ==
    <<".">>

\* float(s) returns a value: blanks around, an optional sign, then inf, infinity,
\* nan or a decimal numeral with an optional fraction and exponent
float_ok(s) ==
    LET t == strip(s)
        u == upper(IF t # <<>> /\ Head(t) \in {"+", "-"} THEN Tail(t) ELSE t)
        me == split_once(u, "E")
        mant == split_once(me[1], ".")
        exp == IF Len(me) = 2 /\ me[2] # <<>> /\ Head(me[2]) \in {"+", "-"}
               THEN Tail(me[2]) ELSE IF Len(me) = 2 THEN me[2] ELSE <<"0">>
    IN  \/ u \in {<<"I","N","F">>, <<"I","N","F","I","N","I","T","Y">>, <<"N","A","N">>}
        \/ /\ mant[1] # <<>> => digits_ok(mant[1])
           /\ (Len(mant) = 2 /\ mant[2] # <<>>) => digits_ok(mant[2])
           /\ Len(mant[1]) + (IF Len(mant) = 2 THEN Len(mant[2]) ELSE 0) > 0
           /\ digits_ok(exp)

\* validate_type(value, field_type), value a str
validate_type(value, field_type) ==
    CASE field_type = T_Integer -> int_ok(value)
      [] field_type = T_Float -> float_ok(value)
      [] field_type = T_Flag -> value = <<>>
      [] field_type = T_Character -> Len(value) = 1
      [] field_type = T_String -> TRUE
      [] OTHER -> FALSE

(***************************************************************************)
(* statistical_analysis.py: data_type_consistency                          *)
(***************************************************************************)
\* the length of the longest run of characters other than "," from position i
RECURSIVE non_comma_run(_, _)
non_comma_run(s, i) ==
    IF i > Len(s) \/ s[i] = "," THEN 0 ELSE 1 + non_comma_run(s, i + 1)

\* "Type=([^,]+)" matches at position j
type_at(s, j) ==
    /\ j + 5 <= Len(s)
    /\ SubSeq(s, j, j + 4) = P_type
    /\ s[j + 5] # ","

\* re.search(r'ID=([^,]+).*Type=([^,]+)', line): the leftmost "ID=" that a
\* "Type=" follows after at least one character; the first group as long as it
\* can be, then ".*" as long as it can be, so the last "Type=" is taken
id_type_search(line) ==
    LET starts == {i \in 1..Len(line) :
                      /\ i + 2 <= Len(line) /\ SubSeq(line, i, i + 2) = P_id
                      /\ \E j \in (i + 4)..Len(line) :
                            type_at(line, j) /\ non_comma_run(line, i + 3) >= 1}
    IN  IF starts = {} THEN [matched |-> FALSE]
        ELSE LET i == CHOOSE x \in starts : \A y \in starts : x <= y
                 js == {j \in (i + 4)..Len(line) : type_at(line, j)}
                 j == CHOOSE x \in js : \A y \in js : y <= x
                 run == non_comma_run(line, i + 3)
                 n == IF run <= j - (i + 3) THEN run ELSE j - (i + 3)
             IN  [matched |-> TRUE,
                  field_id |-> SubSeq(line, i + 3, i + 2 + n),
                  field_type |-> SubSeq(line, j + 5, j + 4 + non_comma_run(line, j + 5))]

\* the locals of data_type_consistency before its loop
types_locals ==
    [results |->
        [is_valid |-> TRUE,
         errors |-> [info_type_mismatch |-> <<>>,
                     format_type_mismatch |-> <<>>,
                     undefined_info_field |-> <<>>,
                     undefined_format_field |-> <<>>]],
     info_fields |-> EmptyDict,
     format_fields |-> EmptyDict,
     column_indices |-> EmptyDict]

\* for i, field in enumerate(fields): column_indices[field] = i
RECURSIVE index_columns(_, _, _)
index_columns(d, fields, i) ==
    IF i >= Len(fields) THEN d
    ELSE index_columns(dict_set(d, fields[i + 1], i), fields, i + 1)

\* "for val in value.split(',')" of one INFO key=value item
RECURSIVE info_values(_, _, _, _, _)
info_values(res, line_number, key, expected_type, vals) ==
    IF vals = <<>> THEN res
    ELSE LET val == Head(vals)
             r1 == IF val # S_dot /\ ~validate_type(val, expected_type)
                   THEN record_error(res, "info_type_mismatch",
                            [line |-> line_number, field |-> key, value |-> val,
                             type |-> expected_type, msg |-> "does not match type"])
                   ELSE res
         IN  info_values(r1, line_number, key, expected_type, Tail(vals))

\* the body of "for item in info_field.split(';')"
info_item(res, line_number, info_fields, item) ==
    IF ~\E i \in 1..Len(item) : item[i] = "="
    THEN IF item \notin DOMAIN info_fields
         THEN record_error(res, "undefined_info_field",
                  [line |-> line_number, field |-> item])
         ELSE IF info_fields[item] # T_Flag
         THEN record_error(res, "info_type_mismatch",
                  [line |-> line_number, field |-> item, msg |-> "should be a Flag"])
         ELSE res
    ELSE LET kv == split_once(item, "=")
             key == kv[1]
             value == kv[2]
         IN  IF key \notin DOMAIN info_fields
             THEN record_error(res, "undefined_info_field",
                      [line |-> line_number, field |-> key])
             ELSE info_values(res, line_number, key, info_fields[key],
                              split(value, ","))

RECURSIVE info_items(_, _, _, _)
info_items(res, line_number, info_fields, items) ==
    IF items = <<>> THEN res
    ELSE info_items(info_item(res, line_number, info_fields, Head(items)),
                    line_number, info_fields, Tail(items))

\* "Validate INFO field" of one data line
validate_info(res, line_number, s, fields) ==
    IF K_INFO \in DOMAIN s.column_indices /\ s.column_indices[K_INFO] < Len(fields)
    THEN LET info_field == fields[s.column_indices[K_INFO] + 1]
         IN  IF info_field # <<>> /\ info_field # S_dot
             THEN info_items(res, line_number, s.info_fields, split(info_field, ";"))
             ELSE res
    ELSE res

\* the FORMAT keys taken as declared, whatever the header declares
undefined_format_keys_ignored(res, line_number, format_fields, keys) == res

\* "for key in format_keys": undefined FORMAT keys
RECURSIVE undefined_format_keys(_, _, _, _)
undefined_format_keys(res, line_number, format_fields, keys) ==
    IF keys = <<>> THEN res
    ELSE LET r1 == IF Head(keys) \notin DOMAIN format_fields
                   THEN record_error(res, "undefined_format_field",
                            [line |-> line_number, field |-> Head(keys)])
                   ELSE res
         IN  undefined_format_keys(r1, line_number, format_fields, Tail(keys))

\* the genotype test of a GT value
valid_genotype(value) ==
    \/ /\ \E i \in 1..Len(value) : value[i] = "/"
       /\ \A i \in 1..Len(value) : value[i] \in Digits \/ value[i] = "/"
    \/ /\ \E i \in 1..Len(value) : value[i] = "|"
       /\ \A i \in 1..Len(value) : value[i] \in Digits \/ value[i] = "|"

\* "for subval in value.split(',')" of one FORMAT key
RECURSIVE format_subvalues(_, _, _, _, _)
format_subvalues(res, line_number, key, expected_type, subvals) ==
    IF subvals = <<>> THEN res
    ELSE LET subval == Head(subvals)
             r1 == IF subval # S_dot /\ ~validate_type(subval, expected_type)
                   THEN record_error(res, "format_type_mismatch",
                            [line |-> line_number, field |-> key, value |-> subval,
                             type |-> expected_type, msg |-> "does not match type"])
                   ELSE res
         IN  format_subvalues(r1, line_number, key, expected_type, Tail(subvals))

\* "for i, (key, value) in enumerate(zip(format_keys, sample_values))"
RECURSIVE sample_values_check(_, _, _, _, _)
sample_values_check(res, line_number, format_fields, keys, values) ==
    IF keys = <<>> \/ values = <<>> THEN res
    ELSE LET key == Head(keys)
             value == Head(values)
             r1 == IF key \in DOMAIN format_fields /\ value # S_dot
                   THEN IF key = K_GT
                        THEN IF ~valid_genotype(value)
                             THEN record_error(res, "format_type_mismatch",
                                      [line |-> line_number, field |-> key,
                                       value |-> value,
                                       msg |-> "is not a valid genotype"])
                             ELSE res
                        ELSE format_subvalues(res, line_number, key,
                                              format_fields[key], split(value, ","))
                   ELSE res
         IN  sample_values_check(r1, line_number, format_fields,
                                 Tail(keys), Tail(values))

\* the sample values checked against the keys whatever their number
validate_format_any_count(res, line_number, s, fields) ==
    IF K_FORMAT \in DOMAIN s.column_indices /\ s.column_indices[K_FORMAT] < Len(fields)
    THEN LET format_idx == s.column_indices[K_FORMAT]
             format_keys == split(fields[format_idx + 1], ":")
             r1 == undefined_format_keys(res, line_number, s.format_fields, format_keys)
         IN  IF format_idx + 1 < Len(fields)
             THEN sample_values_check(r1, line_number, s.format_fields, format_keys,
                                      split(fields[format_idx + 2], ":"))
             ELSE r1
    ELSE res

\* "Validate FORMAT field and sample data" of one data line
validate_format(res, line_number, s, fields) ==
    IF K_FORMAT \in DOMAIN s.column_indices /\ s.column_indices[K_FORMAT] < Len(fields)
    THEN LET format_idx == s.column_indices[K_FORMAT]
             format_keys == split(fields[format_idx + 1], ":")
             r1 == undefined_format_keys(res, line_number, s.format_fields, format_keys)
         IN  IF format_idx + 1 < Len(fields)
             THEN LET sample_values == split(fields[format_idx + 2], ":")
                  IN  IF Len(sample_values) # Len(format_keys) THEN r1
                      ELSE sample_values_check(r1, line_number, s.format_fields,
                                               format_keys, sample_values)
             ELSE r1
    ELSE res

\* one iteration of "for line_number, line in enumerate(vcf_file, 1)"
data_type_consistency_line(s, line_number, raw) ==
    LET line == strip(raw)
    IN  IF startswith(line, P_hash2)
        THEN IF startswith(line, P_info)
             THEN LET m == id_type_search(line)
                  IN  IF m.matched
                      THEN [s EXCEPT !.info_fields = dict_set(@, m.field_id, m.field_type)]
                      ELSE s
             ELSE IF startswith(line, P_format)
             THEN LET m == id_type_search(line)
                  IN  IF m.matched
                      THEN [s EXCEPT !.format_fields = dict_set(@, m.field_id, m.field_type)]
                      ELSE s
             ELSE s
        ELSE IF startswith(line, P_chrom)
        THEN [s EXCEPT !.column_indices = index_columns(@, split(line, TAB), 0)]
        ELSE IF line = <<>> \/ startswith(line, P_hash)
        THEN s
        ELSE LET fields == split(line, TAB)
                 r1 == validate_info(s.results, line_number, s, fields)
             IN  [s EXCEPT !.results = validate_format(r1, line_number, s, fields)]

RECURSIVE types_loop(_, _, _)
types_loop(s, line_number, lines) ==
    IF lines = <<>> THEN s
    ELSE types_loop(data_type_consistency_line(s, line_number, Head(lines)),
                    line_number + 1, Tail(lines))

\* data_type_consistency(vcf_file_path) on the lines of the file
data_type_consistency(lines) == types_loop(types_locals, 1, lines).results

(***************************************************************************)
(* Python float: IEEE 754 binary64, round to nearest, ties to even.        *)
(* A positive float is [m, e]: m its 53 significand bits, most significant *)
(* first, e the exponent of the last bit (the value is m * 2^e); 0.0 is    *)
(* FloatZero.  Only the operations of the percentages are modelled: the    *)
(* quotient of two ints, the product with 100 and the sum of two floats.   *)
(***************************************************************************)
Precision == 53

FloatZero == [zero |-> TRUE]

RECURSIVE Zeros(_)
Zeros(n) == IF n <= 0 THEN <<>> ELSE <<0>> \o Zeros(n - 1)

\* the bits of a natural number, most significant first, <<>> for 0
RECURSIVE BitsOfNat(_)
BitsOfNat(k) == IF k = 0 THEN <<>> ELSE BitsOfNat(k \div 2) \o <<k % 2>>

RECURSIVE StripLeadingZeros(_)
StripLeadingZeros(b) ==
    IF b # <<>> /\ Head(b) = 0 THEN StripLeadingZeros(Tail(b)) ELSE b

\* the carry into bit i of the sum of two bit strings of equal length: some
\* lower bit makes a carry and every bit in between passes it on
CarryInto(a, b, i) ==
    \E j \in (i + 1)..Len(a) :
        /\ a[j] + b[j] = 2
        /\ \A k \in (i + 1)..(j - 1) : a[k] + b[k] >= 1

\* the sum of two bit strings of equal length, one bit longer
AddAligned(a, b) ==
    [i \in 1..(Len(a) + 1) |->
        IF i = 1 THEN (IF CarryInto(a, b, 0) THEN 1 ELSE 0)
        ELSE (a[i - 1] + b[i - 1] + (IF CarryInto(a, b, i - 1) THEN 1 ELSE 0)) % 2]

\* the sum of two bit strings, without leading zeros
AddBits(a, b) ==
    LET n == IF Len(a) >= Len(b) THEN Len(a) ELSE Len(b)
    IN  StripLeadingZeros(AddAligned(Zeros(n - Len(a)) \o a, Zeros(n - Len(b)) \o b))

\* some bit of b is 1
AnyBit(b) == \E i \in 1..Len(b) : b[i] = 1

\* the float nearest to bits * 2^e (bits without leading zeros, not empty; sticky:
\* a non-zero remainder below the last bit), ties to the even significand
RoundToFloat(bits, e, sticky) ==
    IF Len(bits) <= Precision
    THEN [zero |-> FALSE, m |-> bits \o Zeros(Precision - Len(bits)),
          e |-> e - (Precision - Len(bits))]
    ELSE LET kept == SubSeq(bits, 1, Precision)
             guard == bits[Precision + 1]
             rest == AnyBit(SubSeq(bits, Precision + 2, Len(bits))) \/ sticky
             round_up == guard = 1 /\ (rest \/ kept[Precision] = 1)
             up == AddBits(kept, <<1>>)
             e1 == e + (Len(bits) - Precision)
         IN  IF ~round_up THEN [zero |-> FALSE, m |-> kept, e |-> e1]
             ELSE IF Len(up) > Precision
             THEN [zero |-> FALSE, m |-> SubSeq(up, 1, Precision), e |-> e1 + 1]
             ELSE [zero |-> FALSE, m |-> up, e |-> e1]

\* float(k) of a small natural number
FloatOfNat(k) == IF k = 0 THEN FloatZero ELSE RoundToFloat(BitsOfNat(k), 0, FALSE)

\* the binary expansion of r / n (0 < r < n) from the bit of weight 2^-k on:
\* the first Precision + 1 significant bits, the exponent of the last of them
\* and whether a remainder is left
RECURSIVE QuotientBits(_, _, _, _)
QuotientBits(r, n, k, bits) ==
    IF Len(bits) = Precision + 1
    THEN [bits |-> bits, e |-> 0 - (k - 1), sticky |-> r # 0]
    ELSE LET r2 == 2 * r
             bit == IF r2 >= n THEN 1 ELSE 0
             rest == IF r2 >= n THEN r2 - n ELSE r2
         IN  QuotientBits(rest, n, k + 1,
                          IF bits = <<>> /\ bit = 0 THEN bits ELSE Append(bits, bit))

\* a / b of two ints, 0 <= a <= b, 0 < b
int_truediv(a, b) ==
    IF a = 0 THEN FloatZero
    ELSE IF a = b THEN FloatOfNat(1)
    ELSE LET q == QuotientBits(a, b, 1, <<>>)
         IN  RoundToFloat(q.bits, q.e, q.sticky)

\* x * 100: the exact product is 64 x + 32 x + 4 x
float_times_100(x) ==
    IF x.zero THEN FloatZero
    ELSE RoundToFloat(AddBits(x.m \o Zeros(6), AddBits(x.m \o Zeros(5), x.m \o Zeros(2))),
                      x.e, FALSE)

\* x + y of two floats that are not negative
float_add(x, y) ==
    IF x.zero THEN y
    ELSE IF y.zero THEN x
    ELSE LET e == IF x.e <= y.e THEN x.e ELSE y.e
         IN  RoundToFloat(AddBits(x.m \o Zeros(x.e - e), y.m \o Zeros(y.e - e)), e, FALSE)

(***************************************************************************)
(* expert_knowledge.py: expert_knowledge_evaluation                        *)
(***************************************************************************)
\* a path glob.glob matched: a file with its lines, or one open() fails on
ReadableFile(lines) == [readable |-> TRUE, lines |-> lines]

UnreadableFile == [readable |-> FALSE, lines |-> <<>>]

\* with open(vcf_file_path, "r") raises OSError
open_raises(path) == ~path.readable

criteria ==
    [nucleotides |-> [valid_bases |-> <<"A", "C", "G", "T", "N">>],
     positions |-> [source |-> "NCBI GRCh38 Assembly"]]

\* results = {"error": ...}
error_results == [error |-> "No VCF files found"]

\* the initial results with a third summary category, "overall"
initial_results_with_overall(files) ==
    [criteria |-> criteria,
     summary |-> [total_files |-> Len(files),
                  positions |-> [valid |-> 0, invalid |-> 0],
                  nucleotides |-> [valid |-> 0, invalid |-> 0],
                  overall |-> [valid |-> 0, invalid |-> 0]],
     files |-> <<>>]

\* results = {"criteria": ..., "summary": ..., "files": {}}
initial_results(files) ==
    [criteria |-> criteria,
     summary |-> [total_files |-> Len(files),
                  positions |-> [valid |-> 0, invalid |-> 0],
                  nucleotides |-> [valid |-> 0, invalid |-> 0]],
     files |-> <<>>]

\* the if/else of one category with both branches counting the file as valid
count_file_always_valid(counts, is_valid) ==
    [counts EXCEPT !.valid = @ + 1]

\* if is_valid: counts["valid"] += 1 else: counts["invalid"] += 1
count_file(counts, is_valid) ==
    IF is_valid THEN [counts EXCEPT !.valid = @ + 1]
    ELSE [counts EXCEPT !.invalid = @ + 1]

\* the body of the loop with counts that stop at the first file with an invalid
\* position
record_file_until_invalid(res, file_results) ==
    IF res.summary.positions.invalid > 0
    THEN [res EXCEPT !.files = Append(@, file_results)]
    ELSE [res EXCEPT
             !.files = Append(@, file_results),
             !.summary.positions =
                 count_file(@, file_results.position_validation.is_valid),
             !.summary.nucleotides =
                 count_file(@, file_results.nucleotide_validation.is_valid)]

\* the body of "for vcf_file in vcf_files" once both reports are made
record_file(res, file_results) ==
    [res EXCEPT
        !.files = Append(@, file_results),
        !.summary.positions =
            count_file(@, file_results.position_validation.is_valid),
        !.summary.nucleotides =
            count_file(@, file_results.nucleotide_validation.is_valid)]

\* (count / total_files) * 100
percentage(count, total_files) == float_times_100(int_truediv(count, total_files))

\* the four percentages added to one category of the summary
with_percentages(counts, total_files) ==
    [valid |-> counts.valid,
     invalid |-> counts.invalid,
     valid_percentage |-> percentage(counts.valid, total_files),
     invalid_percentage |-> percentage(counts.invalid, total_files)]

\* "if total_files > 0": the percentages of both categories
summary_percentages(res) ==
    IF res.summary.total_files > 0
    THEN [res EXCEPT
             !.summary.positions = with_percentages(@, res.summary.total_files),
             !.summary.nucleotides = with_percentages(@, res.summary.total_files)]
    ELSE res

\* "if not vcf_files" with the test left out
no_vcf_files_never(files) == FALSE

\* if not vcf_files
no_vcf_files(files) == files = <<>>

\* "for vcf_file in vcf_files": the results after the files from the i-th on,
\* or the exception of open() or of a validator
RECURSIVE evaluate_files(_, _, _)
evaluate_files(res, files, i) ==
    IF i > Len(files) THEN [raised |-> FALSE, value |-> res]
    ELSE IF open_raises(files[i]) \/ report_invalid_positions(files[i].lines).raised
    THEN [raised |-> TRUE, value |-> NoValue]
    ELSE evaluate_files(
             record_file(res,
                 [position_validation |->
                      report_invalid_positions(files[i].lines).value,
                  nucleotide_validation |->
                      report_invalid_nucleotides(files[i].lines)]),
             files, i + 1)

\* expert_knowledge_evaluation(input_dir), files what glob.glob matched
expert_knowledge_evaluation(files) ==
    IF no_vcf_files(files) THEN [raised |-> FALSE, value |-> error_results]
    ELSE LET loop == evaluate_files(initial_results(files), files, 1)
         IN  IF loop.raised THEN loop
             ELSE [raised |-> FALSE, value |-> summary_percentages(loop.value)]

(***************************************************************************)
(* post_market_evaluation_component.py: download_project                   *)
(***************************************************************************)
\* /tree/
P_tree ==
    <<"/","t","r","e","e","/">>
\* .git
P_git ==
    <<".","g","i","t">>

\* a local variable that no assignment has bound
Unbound == [bound |-> FALSE]

Bound(v) == [bound |-> TRUE, value |-> v]

\* the length of the longest run of characters other than "/" from position i
RECURSIVE non_slash_run(_, _)
non_slash_run(s, i) ==
    IF i > Len(s) \/ s[i] = "/" THEN 0 ELSE 1 + non_slash_run(s, i + 1)

\* "/tree/[^/]+" matches at position i
tree_at(s, i) ==
    /\ i + 6 <= Len(s)
    /\ SubSeq(s, i, i + 5) = P_tree
    /\ s[i + 6] # "/"

\* branch_match = re.search(r"/tree/([^/]+)", github_repo_url) and the
\* assignment of branch under "if branch_match"
branch_search(github_repo_url) ==
    LET starts == {i \in 1..Len(github_repo_url) : tree_at(github_repo_url, i)}
    IN  IF starts = {} THEN Unbound
        ELSE LET i == CHOOSE x \in starts : \A y \in starts : x <= y
             IN  Bound(SubSeq(github_repo_url, i + 6,
                              i + 5 + non_slash_run(github_repo_url, i + 6)))

\* re.sub(r"/tree/[^/]+/?$", "", s): the match must reach the end of s
strip_tree_suffix(s) ==
    LET ends == {i \in 1..Len(s) :
                    /\ tree_at(s, i)
                    /\ LET after == i + 6 + non_slash_run(s, i + 6)
                       IN  \/ after = Len(s) + 1
                           \/ after = Len(s) /\ s[after] = "/"}
    IN  IF ends = {} THEN s
        ELSE SubSeq(s, 1, (CHOOSE x \in ends : \A y \in ends : x <= y) - 1)

\* s.endswith(suffix)
endswith(s, suffix) ==
    /\ Len(suffix) <= Len(s)
    /\ SubSeq(s, Len(s) - Len(suffix) + 1, Len(s)) = suffix

\* s.rstrip("/")
RECURSIVE rstrip_slash(_)
rstrip_slash(s) ==
    IF s # <<>> /\ s[Len(s)] = "/" THEN rstrip_slash(SubSeq(s, 1, Len(s) - 1)) ELSE s

\* repo_url of download_project
repo_url_of(github_repo_url) ==
    LET repo_url == strip_tree_suffix(strip(github_repo_url))
    IN  IF ~endswith(repo_url, P_git) THEN rstrip_slash(repo_url) \o P_git
        ELSE repo_url

\* clone_cmd = ["git", "clone", "--depth", "1", "-b", branch, repo_url, str(temp_dir)]
clone_cmd(branch, repo_url) ==
    <<"git", "clone", "--depth", "1", "-b", branch, repo_url, "/tmp/pharmcat_repo">>

(***************************************************************************)
(* The argument parsers of the scripts and the commands of the components  *)
(* that launch them                                                        *)
(***************************************************************************)
\* --input_dir
O_input_dir ==
    <<"-","-","i","n","p","u","t","_","d","i","r">>
\* --output_file
O_output_file ==
    <<"-","-","o","u","t","p","u","t","_","f","i","l","e">>
\* --groundtruth_file
O_groundtruth_file ==
    <<"-","-","g","r","o","u","n","d","t","r","u","t","h","_","f","i","l","e">>
\* --rwd_predictions_file
O_rwd_predictions_file ==
    <<"-","-","r","w","d","_","p","r","e","d","i","c","t","i","o","n","s","_","f","i","l","e">>
\* --synthetic_predictions_file
O_synthetic_predictions_file ==
    <<"-","-","s","y","n","t","h","e","t","i","c","_","p","r","e","d","i","c","t","i","o","n","s","_","f","i","l","e">>

\* the path of an artifact: a string that does not begin with "-"
ArtifactPath ==
    <<"/","p">>

\* expert_knowledge.py, main: the options declared with add_argument, and
\* those of them that are required
parser_expert_knowledge ==
    [options |-> {O_input_dir, O_output_file},
     required |-> {O_input_dir}]

\* statistical_analysis.py, main
parser_statistical_analysis ==
    [options |-> {O_input_dir},
     required |-> {}]

\* adversarial_evaluation.py, main
parser_adversarial_evaluation ==
    [options |-> {O_groundtruth_file, O_rwd_predictions_file,
                  O_synthetic_predictions_file, O_output_file},
     required |-> {O_groundtruth_file, O_rwd_predictions_file,
                   O_synthetic_predictions_file}]

\* the parser of the script that "python <script_path>" runs
parser_of(script) ==
    CASE script = "expert_knowledge.py" -> parser_expert_knowledge
      [] script = "statistical_analysis.py" -> parser_statistical_analysis
      [] script = "adversarial_evaluation.py" -> parser_adversarial_evaluation

\* the declared option that an argument names: the argument itself when it is
\* declared, else the declared options it abbreviates
options_named(parser, arg) ==
    IF arg \in parser.options THEN {arg}
    ELSE {o \in parser.options : startswith(o, arg)}

\* every argument is an option that the parser declares, followed by its one
\* value
RECURSIVE args_recognised(_, _)
args_recognised(parser, argv) ==
    IF argv = <<>> THEN TRUE
    ELSE /\ startswith(Head(argv), <<"-">>)
         /\ Cardinality(options_named(parser, Head(argv))) = 1
         /\ Len(argv) >= 2
         /\ ~startswith(argv[2], <<"-">>)
         /\ args_recognised(parser, Tail(Tail(argv)))

\* parser.parse_args() returns: it exits with status 2 on an argument it does
\* not recognise and on a required option that is missing
parse_args(parser, argv) ==
    /\ args_recognised(parser, argv)
    /\ \A r \in parser.required :
          \E i \in 1..Len(argv) : options_named(parser, argv[i]) = {r}

\* the script that a component launches
script_of(task) ==
    CASE task = "expert_knowledge" -> "expert_knowledge.py"
      [] task = "statistical_analysis" -> "statistical_analysis.py"
      [] task = "adversarial_evaluation" -> "adversarial_evaluation.py"

\* command of the component, after "python" and the path of the script
command_of(task) ==
    CASE task = "expert_knowledge" ->
             <<O_input_dir, ArtifactPath, O_output_file, ArtifactPath>>
      [] task = "statistical_analysis" ->
             <<O_input_dir, ArtifactPath, O_output_file, ArtifactPath>>
      [] task = "adversarial_evaluation" ->
             <<O_groundtruth_file, ArtifactPath, O_rwd_predictions_file, ArtifactPath,
               O_synthetic_predictions_file, ArtifactPath, O_output_file, ArtifactPath>>

(***************************************************************************)
(* post_market_evaluation_pipeline: the tasks and the outputs they consume *)
(***************************************************************************)
ScriptTasks == {"expert_knowledge", "statistical_analysis", "adversarial_evaluation"}

PharmcatTasks == {"pharmcat_task_rwd", "pharmcat_task_synthetic"}

Tasks == {"download_project"} \cup ScriptTasks \cup PharmcatTasks

\* adversarial_evaluation wired to the outputs of download_project only
consumes_download_only(task) ==
    IF task = "download_project" THEN {} ELSE {"download_project"}

\* the tasks whose outputs are passed to a task as its inputs
consumes(task) ==
    CASE task = "download_project" -> {}
      [] task \in {"expert_knowledge", "statistical_analysis"} -> {"download_project"}
      [] task \in PharmcatTasks -> {"download_project"}
      [] task = "adversarial_evaluation" ->
             {"download_project", "pharmcat_task_rwd", "pharmcat_task_synthetic"}

(***************************************************************************)
(* Input files: every sequence of at most MaxLines lines of the pool of    *)
(* the validator, and the scenario files of the specification              *)
(***************************************************************************)
FilesOver(pool) == UNION {[1..n -> pool] : n \in 0..MaxLines}

\* fileformat, contig, a 10-column #CHROM line, one data line at position 150
ScenarioFile == <<L_fileformat, L_contig, L_header10, L_scenario>>

\* the same with ALT X
ScenarioFileX == <<L_fileformat, L_contig, L_header10, L_scenario_X>>

HeaderPool ==
    {L_fileformat, L_fileformat_indented, L_contig, L_contig_noasm, L_header3,
     L_blank, L_data3, L_data3_trailing, L_data4_trailing, L_data2_nochr}

PositionsPool ==
    {L_contig, L_contig_zero, L_contig_badlen, L_contig_reversed, L_header5,
     L_pos_over, L_pos_equal, L_pos_chr2, L_pos_short, L_pos_nonint}

NucleotidesPool ==
    {L_header5, L_comment, L_nuc_ok, L_nuc_alt, L_nuc_both, L_nuc_twice,
     L_nuc_short}

TypesPool ==
    {L_info_dp, L_info_db, L_info_type_last, L_format_gt, L_format_dp,
     L_format_type_first, L_header10, L_scenario, L_typ_ok, L_typ_bad,
     L_typ_badfmt, L_typ_multi, L_typ_counts, L_flag_blank, L_flag_value,
     L_header11, L_two_samples, L_two_empty_first}

Validators ==
    {"vcf_header_consistency", "data_type_consistency",
     "report_invalid_positions", "report_invalid_nucleotides"}

InputFiles(f) ==
    CASE f = "vcf_header_consistency" -> FilesOver(HeaderPool)
      [] f = "data_type_consistency" -> FilesOver(TypesPool)
      [] f = "report_invalid_positions" -> FilesOver(PositionsPool)
      [] f = "report_invalid_nucleotides" -> FilesOver(NucleotidesPool)

InitialLocals(f) ==
    CASE f = "vcf_header_consistency" -> header_locals
      [] f = "data_type_consistency" -> types_locals
      [] f = "report_invalid_positions" -> positions_locals
      [] f = "report_invalid_nucleotides" -> nucleotides_locals

(***************************************************************************)
(* One validator on one file, a line at a time                             *)
(***************************************************************************)
Init ==
    /\ fn \in Validators
    /\ vcf_file \in InputFiles(fn) \cup {ScenarioFile, ScenarioFileX}
    /\ lineno = 0
    /\ locals = InitialLocals(fn)
    /\ ret = NoValue
    /\ pc = IF fn \in {"report_invalid_positions", "report_invalid_nucleotides"}
            THEN "header" ELSE "loop"
    /\ vcf_files = <<>>
    /\ results = NoValue
    /\ idx = 0
    /\ calls = 0
    /\ prev = NoValue
    /\ runs = 0

file_vars == <<vcf_file, lineno, locals>>

history_vars == <<prev, runs>>

batch_vars == <<vcf_files, results, idx, calls>>

\* vcf_header_consistency: one line of the loop
HeaderLine ==
    /\ fn = "vcf_header_consistency" /\ pc = "loop"
    /\ lineno < Len(vcf_file)
    /\ locals' = vcf_header_consistency_line(locals, vcf_file[lineno + 1])
    /\ lineno' = lineno + 1
    /\ UNCHANGED <<fn, vcf_file, ret, pc, batch_vars, history_vars>>

\* vcf_header_consistency: the presence checks and the return
HeaderReturn ==
    /\ fn = "vcf_header_consistency" /\ pc = "loop"
    /\ lineno = Len(vcf_file)
    /\ ret' = header_missing_checks(locals)
    /\ pc' = "done"
    /\ UNCHANGED <<fn, vcf_file, lineno, locals, batch_vars, history_vars>>

\* data_type_consistency: one line of the loop
TypesLine ==
    /\ fn = "data_type_consistency" /\ pc = "loop"
    /\ lineno < Len(vcf_file)
    /\ locals' = data_type_consistency_line(locals, lineno + 1, vcf_file[lineno + 1])
    /\ lineno' = lineno + 1
    /\ UNCHANGED <<fn, vcf_file, ret, pc, batch_vars, history_vars>>

\* data_type_consistency: the return
TypesReturn ==
    /\ fn = "data_type_consistency" /\ pc = "loop"
    /\ lineno = Len(vcf_file)
    /\ ret' = locals.results
    /\ pc' = "done"
    /\ UNCHANGED <<fn, vcf_file, lineno, locals, batch_vars, history_vars>>

\* validate_vcf_positions: one line of the first loop
PositionsHeaderLine ==
    /\ fn = "report_invalid_positions" /\ pc = "header"
    /\ lineno < Len(vcf_file)
    /\ LET step == positions_header_line(locals, vcf_file[lineno + 1])
       IN  /\ locals' = step.locals
           /\ pc' = step.next
    /\ lineno' = lineno + 1
    /\ UNCHANGED <<fn, vcf_file, ret, batch_vars, history_vars>>

\* validate_vcf_positions: one line of the second loop
PositionsDataLine ==
    /\ fn = "report_invalid_positions" /\ pc = "data"
    /\ lineno < Len(vcf_file)
    /\ locals' = positions_data_line(locals, vcf_file[lineno + 1])
    /\ lineno' = lineno + 1
    /\ UNCHANGED <<fn, vcf_file, ret, pc, batch_vars, history_vars>>

\* report_invalid_positions: the file is exhausted, the report is returned
PositionsReturn ==
    /\ fn = "report_invalid_positions" /\ pc \in {"header", "data"}
    /\ lineno = Len(vcf_file)
    /\ ret' = positions_report(locals.invalid_positions)
    /\ pc' = "done"
    /\ UNCHANGED <<fn, vcf_file, lineno, locals, batch_vars, history_vars>>

\* validate_nucleotides: one line of the first loop
NucleotidesHeaderLine ==
    /\ fn = "report_invalid_nucleotides" /\ pc = "header"
    /\ lineno < Len(vcf_file)
    /\ pc' = nucleotides_header_line(vcf_file[lineno + 1])
    /\ lineno' = lineno + 1
    /\ UNCHANGED <<fn, vcf_file, locals, ret, batch_vars, history_vars>>

\* validate_nucleotides: one line of the second loop
NucleotidesDataLine ==
    /\ fn = "report_invalid_nucleotides" /\ pc = "data"
    /\ lineno < Len(vcf_file)
    /\ locals' = nucleotides_data_line(locals, vcf_file[lineno + 1])
    /\ lineno' = lineno + 1
    /\ UNCHANGED <<fn, vcf_file, ret, pc, batch_vars, history_vars>>

\* report_invalid_nucleotides: the file is exhausted, the report is returned
NucleotidesReturn ==
    /\ fn = "report_invalid_nucleotides" /\ pc \in {"header", "data"}
    /\ lineno = Len(vcf_file)
    /\ ret' = nucleotides_report(locals.invalid_sequences)
    /\ pc' = "done"
    /\ UNCHANGED <<fn, vcf_file, lineno, locals, batch_vars, history_vars>>

Next ==
    \/ HeaderLine
    \/ HeaderReturn
    \/ TypesLine
    \/ TypesReturn
    \/ PositionsHeaderLine
    \/ PositionsDataLine
    \/ PositionsReturn
    \/ NucleotidesHeaderLine
    \/ NucleotidesDataLine
    \/ NucleotidesReturn

Spec == Init /\ [][Next]_vars

(***************************************************************************)
(* expert_knowledge_evaluation on a directory of files                     *)
(***************************************************************************)
\* the files glob.glob may find: one that passes both validators, the scenario
\* (position out of range), one with an ALT off the alphabet, one failing both,
\* one whose contig length makes int() raise and one that cannot be opened
ValidFile == <<L_contig, L_header5, L_pos_equal>>

BatchPool ==
    {ReadableFile(ValidFile), ReadableFile(ScenarioFile),
     ReadableFile(<<L_header5, L_nuc_alt>>), ReadableFile(ScenarioFileX),
     ReadableFile(<<L_contig_badlen, L_header5>>), UnreadableFile}

Directories ==
    UNION {[1..n -> BatchPool] : n \in 0..MaxFiles}

InitBatch ==
    /\ fn = "expert_knowledge_evaluation"
    /\ vcf_files \in Directories
    /\ vcf_file = <<>>
    /\ lineno = 0
    /\ locals = NoValue
    /\ ret = NoValue
    /\ pc = "start"
    /\ results = NoValue
    /\ idx = 0
    /\ calls = 0
    /\ prev = NoValue
    /\ runs = 0

\* "if not vcf_files": the error result
EvalNoFiles ==
    /\ pc = "start"
    /\ no_vcf_files(vcf_files)
    /\ results' = error_results
    /\ pc' = "return"
    /\ UNCHANGED <<fn, file_vars, ret, vcf_files, idx, calls, history_vars>>

\* else: the results with their empty summary
EvalInit ==
    /\ pc = "start"
    /\ ~no_vcf_files(vcf_files)
    /\ results' = initial_results(vcf_files)
    /\ pc' = "files"
    /\ UNCHANGED <<fn, file_vars, ret, vcf_files, idx, calls, history_vars>>

\* one file of "for vcf_file in vcf_files": both reports and the counts, or
\* the exception of open() or of a validator, which nothing catches
EvalFile ==
    /\ pc = "files"
    /\ idx < Len(vcf_files)
    /\ vcf_file' = vcf_files[idx + 1].lines
    /\ idx' = idx + 1
    /\ LET path == vcf_files[idx + 1]
           positions == report_invalid_positions(path.lines)
           nucleotides == report_invalid_nucleotides(path.lines)
       IN  IF open_raises(path) \/ positions.raised
           THEN /\ pc' = "raised"
                /\ calls' = calls + 1
                /\ UNCHANGED results
           ELSE /\ results' = record_file(results,
                                   [position_validation |-> positions.value,
                                    nucleotide_validation |-> nucleotides])
                /\ calls' = calls + 2
                /\ UNCHANGED pc
    /\ UNCHANGED <<fn, lineno, locals, ret, vcf_files, history_vars>>

\* after the loop: the percentages
EvalPercentages ==
    /\ pc = "files"
    /\ idx = Len(vcf_files)
    /\ results' = summary_percentages(results)
    /\ pc' = "return"
    /\ UNCHANGED <<fn, file_vars, ret, vcf_files, idx, calls, history_vars>>

\* return results
EvalReturn ==
    /\ pc = "return"
    /\ ret' = results
    /\ pc' = "done"
    /\ UNCHANGED <<fn, file_vars, vcf_files, results, idx, calls, history_vars>>

NextBatch ==
    \/ EvalNoFiles
    \/ EvalInit
    \/ EvalFile
    \/ EvalPercentages
    \/ EvalReturn

SpecBatch == InitBatch /\ [][NextBatch]_vars


(***************************************************************************)
(* The same function called a second time on the same, unmodified input    *)
(***************************************************************************)
\* where a call of f starts
EntryPoint(f) ==
    CASE f \in {"report_invalid_positions", "report_invalid_nucleotides"} -> "header"
      [] f = "expert_knowledge_evaluation" -> "start"
      [] OTHER -> "loop"

\* the locals a call of f starts with
EntryLocals(f) == IF f \in Validators THEN InitialLocals(f) ELSE NoValue

\* a second call that goes on with the locals and the results the first left
CallAgainWithOldLocals ==
    /\ pc = "done"
    /\ runs = 0
    /\ prev' = ret
    /\ runs' = 1
    /\ ret' = NoValue
    /\ lineno' = 0
    /\ pc' = EntryPoint(fn)
    /\ idx' = 0
    /\ calls' = 0
    /\ UNCHANGED <<fn, vcf_file, vcf_files, locals, results>>

\* fn has returned and is called again on the same input: the file is read
\* from its first line, the locals and the results are built anew by the call
CallAgain ==
    /\ pc = "done"
    /\ runs = 0
    /\ prev' = ret
    /\ runs' = 1
    /\ ret' = NoValue
    /\ lineno' = 0
    /\ locals' = EntryLocals(fn)
    /\ pc' = EntryPoint(fn)
    /\ results' = NoValue
    /\ idx' = 0
    /\ calls' = 0
    /\ UNCHANGED <<fn, vcf_file, vcf_files>>

InitTwice == Init \/ InitBatch

NextTwice ==
    \/ Next
    \/ NextBatch
    \/ CallAgain

SpecTwice == InitTwice /\ [][NextTwice]_vars


(***************************************************************************)
(* validate_type on one value and one type tag                             *)
(***************************************************************************)
ValueAlphabet == {"0", "1", "_", " ", "-", ".", "x"}

Values == UNION {[1..n -> ValueAlphabet] : n \in 0..MaxValueLen}

\* the five tags validate_type knows, a tag it does not know and the tag that
\* the declaration ##INFO=<ID=DP,Type=Integer> gives
TypeTags ==
    {T_Integer, T_Float, T_Flag, T_Character, T_String,
     <<"I", "n", "t">>, <<"I", "n", "t", "e", "g", "e", "r", ">">>}

InitType ==
    /\ fn = "validate_type"
    /\ locals \in [value : Values, field_type : TypeTags]
    /\ pc = "call"
    /\ ret = NoValue
    /\ vcf_file = <<>>
    /\ lineno = 0
    /\ vcf_files = <<>>
    /\ results = NoValue
    /\ idx = 0
    /\ calls = 0
    /\ prev = NoValue
    /\ runs = 0

\* validate_type(value, field_type) returns
ValidateType ==
    /\ fn = "validate_type"
    /\ pc = "call"
    /\ ret' = validate_type(locals.value, locals.field_type)
    /\ pc' = "done"
    /\ UNCHANGED <<fn, file_vars, batch_vars, history_vars>>

NextType == ValidateType

SpecType == InitType /\ [][NextType]_vars

(***************************************************************************)
(* data_type_consistency on a file that declares GT, names ten columns and *)
(* holds one data line with the keys GT and one sample value              *)
(***************************************************************************)
GenotypeAlphabet == {"0", "/", "|", "x"}

GenotypeValues == UNION {[1..n -> GenotypeAlphabet] : n \in 1..MaxGenotypeLen}

\* chr1<TAB>150<TAB>.<TAB>A<TAB>T<TAB>.<TAB>.<TAB>.<TAB>GT<TAB> and the value
GenotypeLine(value) == SubSeq(L_scenario, 1, Len(L_scenario) - 3) \o value

InitGenotype ==
    /\ fn = "data_type_consistency"
    /\ vcf_file \in {<<L_format_gt, L_header10, GenotypeLine(v)>> : v \in GenotypeValues}
    /\ lineno = 0
    /\ locals = types_locals
    /\ ret = NoValue
    /\ pc = "loop"
    /\ vcf_files = <<>>
    /\ results = NoValue
    /\ idx = 0
    /\ calls = 0
    /\ prev = NoValue
    /\ runs = 0

NextGenotype == TypesLine \/ TypesReturn

SpecGenotype == InitGenotype /\ [][NextGenotype]_vars

(***************************************************************************)
(* One run of the pipeline: each task is pending, running, succeeded or    *)
(* failed; a task is started once the tasks whose outputs it consumes have *)
(* succeeded, and tasks that can run together are interleaved              *)
(***************************************************************************)
\* https://github.com/o/r
BaseUrl ==
    <<"h","t","t","p","s",":","/","/","g","i","t","h","u","b",".","c","o","m","/","o","/","r">>

UrlSegments == {<<"/","t","r","e","e">>, <<"/","m","a","i","n">>, <<"/">>, <<".","g","i","t">>}

RECURSIVE Concat(_)
Concat(parts) == IF parts = <<>> THEN <<>> ELSE Head(parts) \o Concat(Tail(parts))

\* the repository URL followed by at most MaxSegments segments
Urls == {BaseUrl \o Concat(s) : s \in UNION {[1..n -> UrlSegments] : n \in 0..MaxSegments}}

InitPipeline ==
    /\ fn = "post_market_evaluation_pipeline"
    /\ locals \in {[github_repo_url |-> u, branch |-> Unbound,
                    repo_url |-> NoValue, clone_cmd |-> NoValue] : u \in Urls}
    /\ pc = [t \in Tasks |-> "pending"]
    /\ ret = NoValue
    /\ vcf_file = <<>>
    /\ lineno = 0
    /\ vcf_files = <<>>
    /\ results = NoValue
    /\ idx = 0
    /\ calls = 0
    /\ prev = NoValue
    /\ runs = 0

\* a task whose inputs are all there is started
StartTask(t) ==
    /\ fn = "post_market_evaluation_pipeline"
    /\ pc[t] = "pending"
    /\ \A p \in consumes(t) : pc[p] = "succeeded"
    /\ pc' = [pc EXCEPT ![t] = "running"]
    /\ UNCHANGED <<fn, file_vars, ret, batch_vars, history_vars>>

\* download_project up to "Using repository URL": branch and repo_url; the
\* print of a branch that no assignment has bound raises UnboundLocalError
DownloadBranch ==
    /\ fn = "post_market_evaluation_pipeline"
    /\ pc["download_project"] = "running"
    /\ LET branch == branch_search(locals.github_repo_url)
       IN  /\ locals' = [locals EXCEPT !.branch = branch,
                                       !.repo_url = repo_url_of(locals.github_repo_url)]
           /\ pc' = [pc EXCEPT !["download_project"] =
                         IF branch.bound THEN "install" ELSE "failed"]
    /\ UNCHANGED <<fn, vcf_file, lineno, ret, batch_vars, history_vars>>

\* download_project: apt-get update and install, which may fail
DownloadInstall ==
    /\ fn = "post_market_evaluation_pipeline"
    /\ pc["download_project"] = "install"
    /\ \E ok \in BOOLEAN :
          pc' = [pc EXCEPT !["download_project"] = IF ok THEN "clone" ELSE "failed"]
    /\ UNCHANGED <<fn, file_vars, ret, batch_vars, history_vars>>

\* download_project: the clone command is built and run, the files are copied
DownloadClone ==
    /\ fn = "post_market_evaluation_pipeline"
    /\ pc["download_project"] = "clone"
    /\ locals' = [locals EXCEPT !.clone_cmd = clone_cmd(locals.branch.value, locals.repo_url)]
    /\ \E ok \in BOOLEAN :
          pc' = [pc EXCEPT !["download_project"] = IF ok THEN "succeeded" ELSE "failed"]
    /\ UNCHANGED <<fn, vcf_file, lineno, ret, batch_vars, history_vars>>

\* a component that launches a script: the script must exist, accept the
\* command line and end with status 0
RunScript(t) ==
    /\ fn = "post_market_evaluation_pipeline"
    /\ pc[t] = "running"
    /\ \E exists \in BOOLEAN, completes \in BOOLEAN :
          pc' = [pc EXCEPT ![t] =
                    IF /\ exists
                       /\ parse_args(parser_of(script_of(t)), command_of(t))
                       /\ completes
                    THEN "succeeded" ELSE "failed"]
    /\ UNCHANGED <<fn, file_vars, ret, batch_vars, history_vars>>

\* pharmcat_analysis_docker: the container ends with status 0 or not
RunPharmcat(t) ==
    /\ fn = "post_market_evaluation_pipeline"
    /\ pc[t] = "running"
    /\ \E ok \in BOOLEAN :
          pc' = [pc EXCEPT ![t] = IF ok THEN "succeeded" ELSE "failed"]
    /\ UNCHANGED <<fn, file_vars, ret, batch_vars, history_vars>>

NextPipeline ==
    \/ \E t \in Tasks : StartTask(t)
    \/ DownloadBranch
    \/ DownloadInstall
    \/ DownloadClone
    \/ \E t \in ScriptTasks : RunScript(t)
    \/ \E t \in PharmcatTasks : RunPharmcat(t)

SpecPipeline == InitPipeline /\ [][NextPipeline]_vars

(***************************************************************************)
(* Properties                                                              *)
(***************************************************************************)
\* how often x occurs in the sequence s
Occurrences(s, x) == Cardinality({i \in 1..Len(s) : s[i] = x})

NoFindings(res) == \A c \in DOMAIN res.errors : res.errors[c] = <<>>

Done(f) == fn = f /\ pc = "done"

\* C1: in every validator that returns an is_valid flag, after each processed
\* line and at return, is_valid is true exactly when every findings list of
\* the result is empty
C1_IsValidIffNoFindings ==
    /\ fn \in {"vcf_header_consistency", "data_type_consistency"} =>
          /\ locals.results.is_valid <=> NoFindings(locals.results)
          /\ pc = "done" => (ret.is_valid <=> NoFindings(ret))
    /\ Done("report_invalid_positions") =>
          (ret.is_valid <=> ret.invalid_positions = <<>>)
    /\ Done("report_invalid_nucleotides") =>
          (ret.is_valid <=> ret.invalid_sequences = <<>>)

\* a structural pass that is between two lines with findings in two categories
C1_Witness ==
    /\ fn = "vcf_header_consistency" /\ pc = "loop"
    /\ 0 < lineno /\ lineno < Len(vcf_file)
    /\ ~locals.results.is_valid
    /\ locals.results.errors.field_count_mismatch # <<>>
    /\ locals.results.errors.invalid_chrom_format # <<>>

\* the lines of the file as the structural pass compares them
StrippedLines == [i \in 1..Len(vcf_file) |-> strip(vcf_file[i])]

\* "##fileformat" and "#CHROM" are each reported once exactly when no line of
\* lines starts with them, and a report makes the file invalid
MissingHeadersReported(lines) ==
    LET missing == ret.errors.missing_headers
        no_fileformat == ~\E i \in 1..Len(lines) : startswith(lines[i], P_fileformat)
        no_chrom == ~\E i \in 1..Len(lines) : startswith(lines[i], P_chrom)
    IN  /\ Occurrences(missing, "##fileformat") = (IF no_fileformat THEN 1 ELSE 0)
        /\ Occurrences(missing, "#CHROM") = (IF no_chrom THEN 1 ELSE 0)
        /\ missing # <<>> => ~ret.is_valid
        /\ (no_fileformat /\ ~no_chrom) =>
              (~ret.is_valid /\ missing = <<"##fileformat">>)

\* C2 as stated: "##fileformat" (and "#CHROM") is reported exactly once if and
\* only if no line of the file starts with "##fileformat=" (with "#CHROM")
C2_Original ==
    Done("vcf_header_consistency") => MissingHeadersReported(vcf_file)

\* C2 amended: the same of the lines with their leading and trailing blanks
\* removed; a reported header makes is_valid false, and a file with a #CHROM
\* line and no ##fileformat line yields missing_headers = ["##fileformat"]
C2_MissingHeaders ==
    Done("vcf_header_consistency") => MissingHeadersReported(StrippedLines)

\* a file of several lines with a #CHROM line and no fileformat line
C2_Witness ==
    /\ Done("vcf_header_consistency")
    /\ Len(vcf_file) = MaxLines
    /\ \E i \in 1..Len(vcf_file) : vcf_file[i] = L_header3
    /\ ret.errors.missing_headers = <<"##fileformat">>
    /\ ~ret.is_valid

\* C3: every line read so far that starts with "##contig=" and lacks
\* "assembly=GRCh38" has exactly one invalid_contig_assembly finding, its
\* 1-based number among all physical lines; a contig line with the substring
\* has none; and the lines after it are still checked
C3_ContigAssembly ==
    fn = "vcf_header_consistency" =>
        /\ \A i \in 1..lineno :
              startswith(vcf_file[i], P_contig) =>
                 Occurrences(locals.results.errors.invalid_contig_assembly, i)
                    = (IF contains(vcf_file[i], P_assembly) THEN 0 ELSE 1)
        /\ locals.line_number = lineno
        /\ pc = "done" =>
              /\ lineno = Len(vcf_file)
              /\ ret.errors.invalid_contig_assembly =
                    locals.results.errors.invalid_contig_assembly
              /\ \A i \in 1..Len(vcf_file) :
                    vcf_file[i] = L_data2_nochr =>
                       \E k \in 1..Len(ret.errors.invalid_chrom_format) :
                          ret.errors.invalid_chrom_format[k].line = i

\* a contig line without the tag on line 2, after a blank line and before a
\* data line that is still checked
C3_Witness ==
    /\ Done("vcf_header_consistency")
    /\ vcf_file = <<L_blank, L_contig_noasm, L_data2_nochr>>
    /\ ret.errors.invalid_contig_assembly = <<2>>
    /\ ret.errors.invalid_chrom_format # <<>>

\* the lines of the file that are data lines: not blank, not starting with "#"
IsDataLine(raw) == strip(raw) # <<>> /\ ~startswith(strip(raw), P_hash)

HasChromHeader == \E i \in 1..Len(vcf_file) : startswith(vcf_file[i], P_chrom)

\* the field count of the #CHROM header line (the first one)
HeaderFieldCount ==
    LET h == CHOOSE i \in 1..Len(vcf_file) :
                 /\ startswith(vcf_file[i], P_chrom)
                 /\ \A j \in 1..(i - 1) : ~startswith(vcf_file[j], P_chrom)
    IN  Len(split(vcf_file[h], TAB))

\* C4 as stated: in a file with a #CHROM line whose data lines all have as
\* many tab-separated fields as the header and a first field beginning with
\* "chr", wherever the data lines stand and with fields that may be empty,
\* no field_count_mismatch and no invalid_chrom_format finding is recorded
C4_Original ==
    (/\ Done("vcf_header_consistency")
     /\ HasChromHeader
     /\ \A i \in 1..Len(vcf_file) :
           IsDataLine(vcf_file[i]) =>
              /\ Len(split(vcf_file[i], TAB)) = HeaderFieldCount
              /\ startswith(split(vcf_file[i], TAB)[1], P_chr))
    => /\ ret.errors.field_count_mismatch = <<>>
       /\ ret.errors.invalid_chrom_format = <<>>

\* the number of the first #CHROM line, 0 when there is none
FirstChromLine ==
    IF HasChromHeader
    THEN CHOOSE i \in 1..Len(vcf_file) :
            /\ startswith(vcf_file[i], P_chrom)
            /\ \A j \in 1..(i - 1) : ~startswith(vcf_file[j], P_chrom)
    ELSE 0

\* C5 as stated, of the data lines that follow the #CHROM line: every data
\* line whose number of tab-separated fields differs from the header's has
\* exactly one field_count_mismatch finding, naming the line number, the
\* header's field count and the line's count; the CHROM check runs on the
\* same line
C5_Original ==
    (Done("vcf_header_consistency") /\ HasChromHeader) =>
        \A i \in (FirstChromLine + 1)..Len(vcf_file) :
           IsDataLine(vcf_file[i]) =>
              /\ Len(split(vcf_file[i], TAB)) # HeaderFieldCount =>
                    /\ Cardinality({k \in 1..Len(ret.errors.field_count_mismatch) :
                           ret.errors.field_count_mismatch[k].line = i}) = 1
                    /\ \E k \in 1..Len(ret.errors.field_count_mismatch) :
                          ret.errors.field_count_mismatch[k] =
                             [line |-> i, expected |-> HeaderFieldCount,
                              got |-> Len(split(vcf_file[i], TAB))]
              /\ ~startswith(split(vcf_file[i], TAB)[1], P_chr) =>
                    \E k \in 1..Len(ret.errors.invalid_chrom_format) :
                       ret.errors.invalid_chrom_format[k].line = i

\* the lines that follow the first line for which is_header holds
LinesAfter(is_header(_)) ==
    IF \E i \in 1..Len(vcf_file) : is_header(vcf_file[i])
    THEN LET h == CHOOSE i \in 1..Len(vcf_file) :
                     /\ is_header(vcf_file[i])
                     /\ \A j \in 1..(i - 1) : ~is_header(vcf_file[j])
         IN  SubSeq(vcf_file, h + 1, Len(vcf_file))
    ELSE <<>>

LinesBefore(is_header(_)) ==
    IF \E i \in 1..Len(vcf_file) : is_header(vcf_file[i])
    THEN LET h == CHOOSE i \in 1..Len(vcf_file) :
                     /\ is_header(vcf_file[i])
                     /\ \A j \in 1..(i - 1) : ~is_header(vcf_file[j])
         IN  SubSeq(vcf_file, 1, h - 1)
    ELSE vcf_file

IsChromLine(raw) == startswith(strip(raw), P_chrom)

IsContigLine(raw) ==
    startswith(strip(raw), <<"#","#","c","o","n","t","i","g","=","<">>)

\* the comma-separated attributes between "##contig=<" and the closing ">"
ContigAttributes(raw) == split(SubSeq(strip(raw), 11, Len(strip(raw)) - 1), ",")

\* the (ID, length) pairs that one ##contig=<...> line declares
DeclaredBy(raw) ==
    LET attrs == ContigAttributes(raw)
    IN  {<<drop(attrs[x[1]], 3), int(drop(attrs[x[2]], 7))>> :
            x \in {y \in (1..Len(attrs)) \X (1..Len(attrs)) :
                      /\ startswith(attrs[y[1]], P_id)
                      /\ startswith(attrs[y[2]], P_length)
                      /\ int_ok(drop(attrs[y[2]], 7))}}

\* the (ID, length) pairs that the ##contig lines of the header declare
DeclaredLengths ==
    LET header == LinesBefore(IsChromLine)
    IN  UNION {DeclaredBy(header[i]) :
                  i \in {j \in 1..Len(header) : IsContigLine(header[j])}}

\* C6 as stated, of the data lines with the five fixed columns: whenever the
\* integer position of a data line exceeds the length a ##contig line declares
\* for its chromosome, the triple (chrom, pos, length) is reported; only
\* chromosomes with a declared length are reported, and only positions above it
C6_Original ==
    Done("report_invalid_positions") =>
        LET data == LinesAfter(IsChromLine)
            found == {ret.invalid_positions[k] : k \in 1..Len(ret.invalid_positions)}
        IN  /\ \A i \in 1..Len(data) :
                  LET fields == split(strip(data[i]), TAB)
                  IN  (/\ ~startswith(data[i], P_hash)
                       /\ Len(fields) >= 5
                       /\ int_ok(fields[2])) =>
                      \A d \in DeclaredLengths :
                         (d[1] = fields[1] /\ int(fields[2]) > d[2]) =>
                            [chromosome |-> fields[1], position |-> int(fields[2]),
                             max_length |-> d[2]] \in found
            /\ \A f \in found :
                  /\ <<f.chromosome, f.max_length>> \in DeclaredLengths
                  /\ f.position > f.max_length

\* the alphabet of the specification: ACGTNacgtn
NucleotideAlphabet == {"A", "C", "G", "T", "N", "a", "c", "g", "t", "n"}

OffAlphabet(seq) == \E i \in 1..Len(seq) : seq[i] \notin NucleotideAlphabet

RECURSIVE ClaimedAltFindings(_, _, _)
ClaimedAltFindings(chrom, pos, alleles) ==
    IF alleles = <<>> THEN <<>>
    ELSE (IF OffAlphabet(Head(alleles))
          THEN <<[chromosome |-> chrom, position |-> pos, field |-> "ALT",
                  value |-> Head(alleles)]>>
          ELSE <<>>) \o ClaimedAltFindings(chrom, pos, Tail(alleles))

\* the findings claimed for the data lines that have at least min_fields
\* fields: one for an off-alphabet REF, one for each off-alphabet ALT allele
RECURSIVE ClaimedSequences(_, _)
ClaimedSequences(data, min_fields) ==
    IF data = <<>> THEN <<>>
    ELSE LET fields == split(strip(Head(data)), TAB)
             here ==
                 IF startswith(Head(data), P_hash) \/ Len(fields) < min_fields
                 THEN <<>>
                 ELSE (IF OffAlphabet(fields[4])
                       THEN <<[chromosome |-> fields[1], position |-> fields[2],
                               field |-> "REF", value |-> fields[4]]>>
                       ELSE <<>>)
                      \o (IF Len(fields) >= 5
                          THEN ClaimedAltFindings(fields[1], fields[2],
                                                  split(fields[5], ","))
                          ELSE <<>>)
         IN  here \o ClaimedSequences(Tail(data), min_fields)

IsRawChromLine(raw) == startswith(raw, P_chrom)

\* (chr1, 150, ALT, X)
ScenarioXFinding ==
    [chromosome |-> <<"c","h","r","1">>, position |-> <<"1","5","0">>,
     field |-> "ALT", value |-> <<"X">>]

C8_Original ==
    (pc = "done" /\ vcf_file = ScenarioFile /\ fn # "report_invalid_positions")
    => ret.is_valid

\* C8 amended: on the scenario file the structural and the nucleotide
\* validators report is_valid = true without a finding; the field-type
\* validator reports is_valid = false with one finding, the undefined FORMAT
\* field GT of line 4, since the file declares no FORMAT key
C8_Scenario ==
    (pc = "done" /\ vcf_file = ScenarioFile) =>
        /\ fn = "vcf_header_consistency" => (ret.is_valid /\ NoFindings(ret))
        /\ fn = "report_invalid_nucleotides" =>
              (ret.is_valid /\ ret.invalid_sequences = <<>>)
        /\ fn = "data_type_consistency" =>
              /\ ~ret.is_valid
              /\ ret.errors.undefined_format_field = <<[line |-> 4, field |-> K_GT]>>
              /\ ret.errors.undefined_info_field = <<>>
              /\ ret.errors.info_type_mismatch = <<>>
              /\ ret.errors.format_type_mismatch = <<>>

\* the field-type validator has returned on the scenario file
C8_Witness ==
    /\ Done("data_type_consistency")
    /\ vcf_file = ScenarioFile

(***************************************************************************)
(* The batch summary                                                       *)
(***************************************************************************)
BatchDone == fn = "expert_knowledge_evaluation" /\ pc = "done"

Categories == {"positions", "nucleotides"}

\* the files of the directory a validator category finds valid
ValidFiles(category) ==
    {i \in 1..Len(vcf_files) :
        IF category = "positions"
        THEN report_invalid_positions(vcf_files[i].lines).value.is_valid
        ELSE report_invalid_nucleotides(vcf_files[i].lines).is_valid}

\* the counts of a category: every file once, on the side its report puts it
CountsOnce(category) ==
    LET s == ret.summary
    IN  /\ s.total_files = Len(vcf_files)
        /\ Len(ret.files) = Len(vcf_files)
        /\ s[category].valid + s[category].invalid = s.total_files
        /\ s[category].valid = Cardinality(ValidFiles(category))
        /\ s[category].valid_percentage = percentage(s[category].valid, s.total_files)
        /\ s[category].invalid_percentage = percentage(s[category].invalid, s.total_files)

PercentageSum(category) ==
    float_add(ret.summary[category].valid_percentage,
              ret.summary[category].invalid_percentage)

\* x is 100.0, the float below it or the float above it
WithinOneUlpOf100(x) ==
    /\ ~x.zero
    /\ x.e = FloatOfNat(100).e
    /\ \/ x.m = FloatOfNat(100).m
       \/ AddBits(x.m, <<1>>) = FloatOfNat(100).m
       \/ x.m = AddBits(FloatOfNat(100).m, <<1>>)

C10_EmptyDirectory ==
    (BatchDone /\ vcf_files = <<>>) =>
        /\ DOMAIN ret = {"error"}
        /\ calls = 0

\* the evaluation of an empty directory has returned
C10_Witness ==
    /\ BatchDone
    /\ vcf_files = <<>>
    /\ ret = error_results

(***************************************************************************)
(* The categories of the batch summary                                     *)
(***************************************************************************)
\* the files of the directory that pass both validators run on them
PassEvery == ValidFiles("positions") \cap ValidFiles("nucleotides")

CategoryFields == {"valid", "invalid", "valid_percentage", "invalid_percentage"}

Unreadable == {i \in 1..Len(vcf_files) : ~vcf_files[i].readable}

\* every file of the directory that can be opened is validated without an
\* exception
ReadableFilesParse ==
    \A i \in 1..Len(vcf_files) :
        vcf_files[i].readable => ~report_invalid_positions(vcf_files[i].lines).raised

\* C12 as stated: a batch with a file that cannot be opened is not aborted; it
\* returns the summary and an entry for every file, the unreadable one included
C12_Original ==
    (fn = "expert_knowledge_evaluation" /\ Unreadable # {} /\ ReadableFilesParse) =>
        /\ pc # "raised"
        /\ pc = "done" =>
              /\ "summary" \in DOMAIN ret
              /\ Len(ret.files) = Len(vcf_files)

\* C13 as stated: whatever the lines of the file, no validator raises an
\* exception, and a validator that has returned has read every line
C13_Original ==
    fn \in Validators =>
        /\ pc # "raised"
        /\ pc = "done" => lineno = Len(vcf_file)

Reordered(p) == [i \in 1..Len(vcf_files) |-> vcf_files[p[i]]]

\* C15: the summary of a returned batch and the report of each of its files
\* are those of the same files processed in any other order, and the report
\* of a file is the one it gets when it is processed alone
C15_OrderIndependent ==
    (BatchDone /\ vcf_files # <<>>) =>
        /\ \A p \in Permutations(1..Len(vcf_files)) :
              LET other == expert_knowledge_evaluation(Reordered(p))
              IN  /\ ~other.raised
                  /\ other.value.summary = ret.summary
                  /\ \A i \in 1..Len(vcf_files) :
                        other.value.files[i] = ret.files[p[i]]
        /\ \A i \in 1..Len(vcf_files) :
              ret.files[i] = expert_knowledge_evaluation(<<vcf_files[i]>>).value.files[1]

\* a returned batch of three files, the second of which alone has an invalid
\* position: the files before and after it are reported valid
C15_Witness ==
    /\ BatchDone
    /\ Len(vcf_files) = 3
    /\ ~ret.files[2].position_validation.is_valid
    /\ ret.files[1].position_validation.is_valid
    /\ ret.files[3].position_validation.is_valid
    /\ vcf_files[1] # vcf_files[3]

(***************************************************************************)
(* Files without a column header                                           *)
(***************************************************************************)
\* C16 as stated: a file without a #CHROM line is reported invalid by every
\* validator, whatever its other lines are
C16_Original ==
    (pc = "done" /\ fn \in Validators
        /\ ~\E i \in 1..Len(vcf_file) : IsChromLine(vcf_file[i]))
    => ~ret.is_valid

(***************************************************************************)
(* The contig table                                                        *)
(***************************************************************************)
\* C17 as stated: once validate_vcf_positions has scanned the header, its
\* table holds ID -> length for exactly the ##contig lines that carry an ID
\* and a non-negative length, 0 included, in whatever order and with whatever
\* other attributes
C17_Original ==
    (fn = "report_invalid_positions" /\ pc \in {"data", "done"}) =>
        /\ \A d \in DeclaredLengths :
              /\ d[1] \in DOMAIN locals.chrom_lengths
              /\ locals.chrom_lengths[d[1]] = d[2]
        /\ \A id \in DOMAIN locals.chrom_lengths :
              <<id, locals.chrom_lengths[id]>> \in DeclaredLengths

(***************************************************************************)
(* The INFO and FORMAT declaration tables                                  *)
(***************************************************************************)
\* the comma-separated attributes between prefix (that ends with "<") and the
\* closing ">" of a header line
AttributesOf(raw, prefix) ==
    split(SubSeq(strip(raw), Len(prefix) + 1, Len(strip(raw)) - 1), ",")

\* the (ID, Type) pairs that the lines read so far declare with prefix; the
\* lines of one file that declare the same ID agree on its type
DeclaredTypes(prefix) ==
    UNION {LET attrs == AttributesOf(vcf_file[i], prefix)
           IN  {<<drop(attrs[x[1]], 3), drop(attrs[x[2]], 5)>> :
                   x \in {y \in (1..Len(attrs)) \X (1..Len(attrs)) :
                             /\ startswith(attrs[y[1]], P_id)
                             /\ startswith(attrs[y[2]], P_type)}} :
           i \in {j \in 1..lineno : startswith(strip(vcf_file[j]), prefix)}}

\* table holds X -> Y for every declared pair
Holds(table, declared) ==
    \A d \in declared : d[1] \in DOMAIN table /\ table[d[1]] = d[2]

\* C18 as stated: every ##INFO=<...> or ##FORMAT=<...> line read so far that
\* has an ID=X and a Type=Y attribute has put X -> Y in its table, wherever
\* the two attributes stand between the angle brackets
C18_Original ==
    fn = "data_type_consistency" =>
        /\ Holds(locals.info_fields, DeclaredTypes(P_info))
        /\ Holds(locals.format_fields, DeclaredTypes(P_format))

(***************************************************************************)
(* The items of the INFO column                                            *)
(***************************************************************************)
HasEquals(item) == \E i \in 1..Len(item) : item[i] = "="

FirstEquals(item) ==
    CHOOSE i \in 1..Len(item) : item[i] = "=" /\ \A k \in 1..(i - 1) : item[k] # "="

\* the key of an item: what stands before its first "=", the item itself
\* without one
KeyOf(item) ==
    IF HasEquals(item) THEN SubSeq(item, 1, FirstEquals(item) - 1) ELSE item

\* the comma-separated subvalues of what follows the first "="
SubvaluesOf(item) == split(SubSeq(item, FirstEquals(item) + 1, Len(item)), ",")

\* the undefined_info_field findings due for the items of line n: one for each
\* item whose key table does not declare
RECURSIVE ClaimedUndefined(_, _, _)
ClaimedUndefined(n, table, items) ==
    IF items = <<>> THEN <<>>
    ELSE (IF KeyOf(Head(items)) \notin DOMAIN table
          THEN <<[line |-> n, field |-> KeyOf(Head(items))]>>
          ELSE <<>>)
         \o ClaimedUndefined(n, table, Tail(items))

\* the info_type_mismatch findings due for one item with a declared key: one
\* for each subvalue other than "." that the declared type does not accept;
\* an item without "=" must be declared a Flag
ClaimedItemMismatch(n, table, item) ==
    IF ~HasEquals(item)
    THEN IF table[item] # T_Flag
         THEN <<[line |-> n, field |-> item, msg |-> "should be a Flag"]>>
         ELSE <<>>
    ELSE LET Fails(v) == v # S_dot /\ ~validate_type(v, table[KeyOf(item)])
             failing == SelectSeq(SubvaluesOf(item), Fails)
         IN  [k \in 1..Len(failing) |->
                 [line |-> n, field |-> KeyOf(item), value |-> failing[k],
                  type |-> table[KeyOf(item)], msg |-> "does not match type"]]

RECURSIVE ClaimedMismatch(_, _, _)
ClaimedMismatch(n, table, items) ==
    IF items = <<>> THEN <<>>
    ELSE (IF KeyOf(Head(items)) \in DOMAIN table
          THEN ClaimedItemMismatch(n, table, Head(items))
          ELSE <<>>)
         \o ClaimedMismatch(n, table, Tail(items))

\* the line that is read in this step
LineRead == vcf_file[lineno + 1]

\* the step appends to the INFO findings those due for the items of info_field
InfoFindingsAppended(info_field) ==
    LET items == split(info_field, ";")
        before == locals.results.errors
        after == locals'.results.errors
    IN  /\ after.undefined_info_field =
              before.undefined_info_field
              \o ClaimedUndefined(lineno + 1, locals.info_fields, items)
        /\ after.info_type_mismatch =
              before.info_type_mismatch
              \o ClaimedMismatch(lineno + 1, locals.info_fields, items)

\* data_type_consistency reads a data line
ReadsDataLine ==
    /\ fn = "data_type_consistency"
    /\ pc = "loop"
    /\ lineno' = lineno + 1
    /\ IsDataLine(LineRead)

InfoColumnRead ==
    /\ K_INFO \in DOMAIN locals.column_indices
    /\ locals.column_indices[K_INFO] < Len(split(strip(LineRead), TAB))
    /\ split(strip(LineRead), TAB)[locals.column_indices[K_INFO] + 1]
           \notin {<<>>, S_dot}

IsBase10Integer(v) ==
    LET t == strip(v)
        d == IF t # <<>> /\ Head(t) \in {"+", "-"} THEN Tail(t) ELSE t
    IN  d # <<>> /\ \A i \in 1..Len(d) : d[i] \in Digits

\* C20 as stated: Integer accepts exactly the base-10 integers, Flag only the
\* empty value, Character exactly the strings of length one, String every
\* string, and a tag that is none of the five types no value
C20_Original ==
    (fn = "validate_type" /\ pc = "done") =>
        LET v == locals.value
            t == locals.field_type
        IN  /\ t = T_Integer => (ret <=> IsBase10Integer(v))
            /\ t = T_Flag => (ret <=> v = <<>>)
            /\ t = T_Character => (ret <=> Len(v) = 1)
            /\ t = T_String => ret
            /\ t \notin {T_Integer, T_Float, T_Flag, T_Character, T_String} => ~ret

(***************************************************************************)
(* data_type_consistency: the FORMAT column and the sample that follows it *)
(***************************************************************************)
\* the undefined_format_field findings due for the keys of line n: one for
\* each key that table does not declare
RECURSIVE ClaimedUndefinedFormat(_, _, _)
ClaimedUndefinedFormat(n, table, keys) ==
    IF keys = <<>> THEN <<>>
    ELSE (IF Head(keys) \notin DOMAIN table
          THEN <<[line |-> n, field |-> Head(keys)]>>
          ELSE <<>>)
         \o ClaimedUndefinedFormat(n, table, Tail(keys))

\* the step appends one undefined_format_field finding for each undeclared
\* key of the column at position c of fields, and no format_type_mismatch
\* finding when the column after it holds another number of values
FormatFindingsAppended(fields, c) ==
    LET keys == split(fields[c], ":")
        before == locals.results.errors
        after == locals'.results.errors
    IN  /\ after.undefined_format_field =
              before.undefined_format_field
              \o ClaimedUndefinedFormat(lineno + 1, locals.format_fields, keys)
        /\ (c < Len(fields) /\ Len(split(fields[c + 1], ":")) # Len(keys))
               => after.format_type_mismatch = before.format_type_mismatch

FormatColumnRead ==
    /\ K_FORMAT \in DOMAIN locals.column_indices
    /\ locals.column_indices[K_FORMAT] < Len(split(strip(LineRead), TAB))

GroupsJoinedBy(value, sep) ==
    LET groups == split(value, sep)
    IN  /\ Len(groups) >= 2
        /\ \A g \in 1..Len(groups) :
              /\ groups[g] # <<>>
              /\ \A i \in 1..Len(groups[g]) : groups[g][i] \in Digits

\* digit[/|]digit[/|]...: digit groups joined by "/" only or by "|" only
IsGenotype(value) == GroupsJoinedBy(value, "/") \/ GroupsJoinedBy(value, "|")

\* the sample value of the data line of a file that declares GT, names ten
\* columns and has one data line with the key GT
GenotypeRead == SubSeq(vcf_file[3], Len(L_scenario) - 2, Len(vcf_file[3]))

\* C22: once data_type_consistency has returned on a file that declares GT
\* and whose data line has the key GT and a sample value other than ".", the
\* report has no format_type_mismatch finding exactly when the value is digit
\* groups joined by one kind of separator, and one "is not a valid genotype"
\* finding otherwise
C22_Original ==
    (/\ fn = "data_type_consistency" /\ pc = "done"
     /\ Len(vcf_file) = 3
     /\ vcf_file[1] = L_format_gt /\ vcf_file[2] = L_header10
     /\ vcf_file[3] = GenotypeLine(GenotypeRead)
     /\ GenotypeRead \notin {<<>>, S_dot})
    => IF IsGenotype(GenotypeRead)
       THEN ret.errors.format_type_mismatch = <<>> /\ ret.is_valid
       ELSE /\ ret.errors.format_type_mismatch =
                   <<[line |-> 3, field |-> K_GT, value |-> GenotypeRead,
                      msg |-> "is not a valid genotype"]>>
            /\ ~ret.is_valid

(***************************************************************************)
(* data_type_consistency: a Flag key used in the key=value form            *)
(***************************************************************************)
\* the items of the INFO column of the line that is read
InfoItemsRead ==
    split(split(strip(LineRead), TAB)[locals.column_indices[K_INFO] + 1], ";")

\* item has the form key=value and its key is declared a Flag
IsFlagWithValue(item) ==
    /\ HasEquals(item)
    /\ KeyOf(item) \in DOMAIN locals.info_fields
    /\ locals.info_fields[KeyOf(item)] = T_Flag

\* C23: when a data line is read whose INFO column holds an item key=value
\* with a key declared Flag, whatever the value ("" and "." included), the
\* step records an info_type_mismatch finding for that key and line and the
\* report is invalid
C23_Original ==
    [][(ReadsDataLine /\ InfoColumnRead)
       => \A i \in 1..Len(InfoItemsRead) :
             IsFlagWithValue(InfoItemsRead[i])
             => /\ ~locals'.results.is_valid
                /\ \E k \in (Len(locals.results.errors.info_type_mismatch) + 1)
                               ..Len(locals'.results.errors.info_type_mismatch) :
                      LET f == locals'.results.errors.info_type_mismatch[k]
                      IN  f.line = lineno + 1 /\ f.field = KeyOf(InfoItemsRead[i])]_vars

(***************************************************************************)
(* data_type_consistency: the sample columns after the first               *)
(***************************************************************************)
\* the fields joined by TAB
RECURSIVE JoinTab(_)
JoinTab(fields) ==
    IF Len(fields) = 0 THEN <<>>
    ELSE IF Len(fields) = 1 THEN fields[1]
    ELSE fields[1] \o TAB \o JoinTab(Tail(fields))

\* values for a sample column
SampleValues == {<<>>, <<" ">>, <<"x">>, <<".">>, <<"0", "/", "1">>, <<"x", ":", "y">>}

\* raw with the value of its column c replaced by v
WithColumn(raw, c, v) == JoinTab([split(raw, TAB) EXCEPT ![c] = v])

\* C24: when a data line with a second or later sample column is read after
\* the #CHROM line that names the FORMAT column, the findings and is_valid
\* after the step are those the same line gives with any other value in that
\* column
C24_Original ==
    [][(ReadsDataLine /\ K_FORMAT \in DOMAIN locals.column_indices)
       => \A c \in (locals.column_indices[K_FORMAT] + 3)..Len(split(LineRead, TAB)) :
             \A v \in SampleValues :
                data_type_consistency_line(locals, lineno + 1,
                                           WithColumn(LineRead, c, v)).results
                    = locals'.results]_vars

(***************************************************************************)
(* The pipeline                                                            *)
(***************************************************************************)
InPipeline == fn = "post_market_evaluation_pipeline"

\* C25: whenever a component that launches a script is running, the parser of
\* the script accepts the command line of the component
C25_Original ==
    InPipeline
    => \A t \in ScriptTasks :
          pc[t] = "running" => parse_args(parser_of(script_of(t)), command_of(t))

\* C26: once download_project is past the lines that determine the branch,
\* the branch is bound, whatever the URL; and a clone command that has been
\* built was built with a bound branch
C26_Original ==
    InPipeline
    => /\ pc["download_project"] \notin {"pending", "running"} => locals.branch.bound
       /\ locals.clone_cmd # NoValue => locals.branch.bound

\* the steps that the claim puts before a step
CompletedBefore(t) ==
    CASE t = "adversarial_evaluation" ->
             {"download_project", "pharmcat_task_rwd", "pharmcat_task_synthetic"}
      [] t = "download_project" -> {}
      [] OTHER -> {"download_project"}

====
